---- MODULE Spec2Model ----
(***************************************************************************)
(* The parallel multi-model query dispatcher of                            *)
(* scripts/llm_pipeline/api_calls.py: run_llm_reasoning, its worker        *)
(* process_single_query, and the helpers they call.                        *)
(*                                                                         *)
(* A table of question rows is handed to a thread pool of max_workers      *)
(* threads; each task processes one row: it loads the ontology context,    *)
(* then calls every configured model in turn, each with up to max_retries  *)
(* attempts, and records the outcome in the shared table and lists.        *)
(*                                                                         *)
(* Text values are records: a Python string is modelled by what the code   *)
(* puts into it (an error label and a message, a prompt and the model that *)
(* answered it), so that two different strings are different values.       *)
(***************************************************************************)
EXTENDS Integers, Sequences, FiniteSets, Bags, TLC

\* ---------------------------------------------------------------- bounds

\* Rows of the input table.
NumRows == 2
\* Models of the configuration (entries of the models dict).
NumModels == 2
\* Largest pool width max_workers the runs are given.
MaxWorkers == 2
\* Most tokens in the log-probability payload of a response.
MaxTokens == 3
\* The log-probabilities of the tokens range over -LogprobDepth .. 1.
LogprobDepth == 2
\* Most words in a response or in an expected answer.
MaxWords == 2

\* ------------------------------------------------------ program constants

\* max_retries = 2, set inside the model loop of process_single_query.
max_retries == 2

Rows == 1 .. NumRows
\* Display names, numbered in the iteration order of the models dict.
ModelNames == 1 .. NumModels
\* The lock is free.
NoOne == 0

Range(f) == {f[i] : i \in DOMAIN f}

VARIABLES
    \* ---- the call's arguments and the environment
    has_question_column,  \* question_column, or a fallback, is a column of df
    has_required_columns, \* "Root Entity" and "Answer Type" are columns of df
    models,               \* the models argument: display names in dict order
    max_workers,          \* the pool width
    context_mode,         \* "ttl" | "json" | another string
    has_client,           \* display name -> its module-level client is not None
    base_path_exists,     \* ontology_base_path is a directory
    files,                \* row -> extensions for which "<Root Entity><ext>" exists
    provider_excs,        \* exceptions the providers of this run may raise
    provider_responses,   \* responses the providers of this run may return
    show_qa,              \* the argument of the same name
    index,                \* the row labels of df
    root_entity,          \* row -> its "Root Entity" cell
    explanation_context,  \* row -> its "explanation_context" cell, EmptyText without one
    \* ---- state shared by the workers
    df_response,          \* (row, model) -> the "{display_name}_response" cell
    df_metrics,           \* (row, model) -> the metric cells of the pair
    logs,                 \* bag of log entries
    detailed_metrics,     \* bag of metrics entries
    failed_queries,       \* bag of row indices
    completed,            \* counter
    lock,                 \* the task holding the Lock, or NoOne
    \* ---- locals of process_single_query, one task per row
    pc,                   \* position of the task
    model_pos,            \* position in models of the model being called
    attempt,              \* the loop variable of range(max_retries)
    ontology_context,     \* the context text
    query_results,        \* display name -> content, Unset when the key is absent
    query_failed,         \* the flag of the same name
    metrics_entry,        \* the entry created before the lock is taken
    \* ---- what the providers saw (observation, not program state)
    calls,                \* (row, model) -> prompts sent, in order
    raised,               \* (row, model) -> provider calls that raised
    caught,               \* (row, model) -> exceptions the except clause caught, in order
    sleeps,               \* (row, model) -> seconds of each time.sleep of the pair, in order
    loads,                \* entity -> calls of load_ontology_context for it
    \* ---- the calling thread
    main_pc,              \* "start" | "pool" | "returned" | "raised"
    returned,             \* the value of the return statement
    \* ---- a call of one of the module's functions on its own
    calc                  \* the function, its arguments and, once called, its result

inputs == <<has_question_column, has_required_columns, models, max_workers, context_mode, has_client,
            base_path_exists, files, provider_excs, provider_responses, show_qa,
            index, root_entity, explanation_context>>
shared == <<df_response, df_metrics, logs, detailed_metrics, failed_queries,
            completed, lock>>
locals == <<pc, model_pos, attempt, ontology_context, query_results,
            query_failed, metrics_entry>>
observed == <<calls, raised, caught, sleeps>>
vars == <<inputs, shared, locals, observed, loads, main_pc, returned, calc>>

\* ------------------------------------------------------------ text values

\* The initial value of a response column: "".
EmptyText == [kind |-> "empty"]
\* A key absent from query_results.
Unset == [kind |-> "unset"]
\* No entry is pending.
NoEntry == [kind |-> "none"]
\* Metric cells as the column initialisation leaves them (0.0 / 0).
ZeroMetrics == [kind |-> "zeros"]
\* The cell of a column that does not exist yet.
NoColumn == [kind |-> "nocolumn"]

\* f"[ERROR] {label}: {message}"
ErrorText(label, message) ==
    [kind |-> "error", label |-> label, message |-> message]

\* The default of query_results.get(display_name, "[ERROR] No response").
NoResponseText == [kind |-> "error", label |-> "No response", message |-> ""]

\* None.
NoneValue == [kind |-> "None"]

\* A text: its words, in order (leading and trailing blanks are not words).
Text(words) == [kind |-> "text", words |-> words]

\* response.choices[0].message.content of the model's answer to a prompt: a
\* string with the words the provider wrote.
ContentOf(m, prompt, words) ==
    [kind |-> "content", model |-> m, prompt |-> prompt, words |-> words]

\* The truth value of a content in "if content": None and "" are false.
Truthy(content) ==
    /\ content.kind \notin {"None", "empty"}
    /\ content.kind \in {"text", "content"} => content.words # << >>

\* ------------------------------------------------------------- exceptions

\* An exception: its class name, str(e), its status_code attribute and the
\* status code of its response attribute (0: no such attribute), and whether
\* str(e) mentions a rate limit.
Exc(type, message, status, nested, ratelimit) ==
    [type |-> type, message |-> message, status_code |-> status,
     response_status |-> nested, rate_limit |-> ratelimit]

\* openai.RateLimitError: HTTP 429.
RateLimitError == Exc("RateLimitError", "Error code: 429 - rate limit exceeded", 429, 429, TRUE)
\* openai.InternalServerError: HTTP 500.
InternalServerError == Exc("InternalServerError", "Error code: 500", 500, 500, FALSE)
\* An exception that carries only a response object.
HTTPError == Exc("HTTPError", "503 Server Error", 0, 503, FALSE)
\* An exception without any status, whose text mentions a rate limit.
RuntimeRateLimit == Exc("RuntimeError", "rate limit reached, slow down", 0, 0, TRUE)
\* openai.APIConnectionError: no status at all.
APIConnectionError == Exc("APIConnectionError", "Connection error.", 0, 0, FALSE)

AllExceptions ==
    {RateLimitError, InternalServerError, HTTPError, RuntimeRateLimit, APIConnectionError}

\* AttributeError: 'NoneType' object has no attribute 'completion_tokens'
AttributeError ==
    Exc("AttributeError", "'NoneType' object has no attribute 'completion_tokens'", 0, 0, FALSE)

\* raise ValueError(f"No client available for model: {display_name}")
NoClientError == Exc("ValueError", "No client available for model: <display_name>", 0, 0, FALSE)

\* A variant of ErrorMsg that classifies the exception: its status code, else the
\* status code of its response, else a rate limit, else the generic text.
ErrorMsgClassified(e) ==
    IF e.status_code # 0 THEN ErrorText("HTTP status", e.message)
    ELSE IF e.response_status # 0 THEN ErrorText("HTTP status", e.message)
    ELSE IF e.rate_limit THEN ErrorText("Rate limit", e.message)
    ELSE ErrorText(e.type, e.message)

\* error_msg = f"[ERROR] {type(e).__name__}: {str(e)}"
ErrorMsg(e) == ErrorText(e.type, e.message)

\* ------------------------------------------------------ the input table

\* row[question_column]
QueryOf(r) == [question |-> r]
\* The entity no file is named after: the default "Unknown".
Unknown == 0
\* row.get("Root Entity", "Unknown")
RootEntityOf(r) == IF has_required_columns THEN root_entity[r] ELSE Unknown
\* row.get("Answer Type", "BIN")
AnswerTypeOf(r) == IF has_required_columns /\ r % 2 = 0 THEN "MC" ELSE "BIN"
\* row.get("Answer", "Unknown")
AnswerOf(r) == IF AnswerTypeOf(r) = "BIN" THEN Text(<<"true">>) ELSE Text(<<"alice">>)
\* The extensions for which a file named after the entity exists.
FilesOf(entity) == IF entity = Unknown THEN {} ELSE files[entity]
\* The explanation a row carries in "explanation_context": a text, which has or
\* has not the words "explanation_context" in it.
GuidanceText(r, mentions) == [kind |-> "guidance", row |-> r, mentions |-> mentions]
\* hasattr(row, 'explanation_context') and row.explanation_context
HasExplanation(r) == explanation_context[r] # EmptyText

\* ------------------------------------------------------ ontology context

\* File name extensions load_ontology_context looks for; "corrupt" in a row's
\* file set says that the file found cannot be decoded or parsed, "explanation"
\* that its json file has the text "explanation_context" in it.
Extensions == {"ttl", "owl", "rdf", "n3", "json"}

\* The text of a file that was read.
FileText(name, ext) == [kind |-> "filetext", name |-> name, ext |-> ext]
\* The content of a json file that mentions "explanation_context".
ExplanationText(name) == [kind |-> "explanation", name |-> name]
\* f"[ERROR: {what} ...{name}...]"
ContextError(what, name) == [kind |-> "ctxerror", what |-> what, name |-> name]
\* An exception leaving the function.
Raised(type) == [kind |-> "raised", type |-> type]

\* open(path).read() / json.load(f): FileNotFoundError for a missing file, another
\* exception for a file that cannot be decoded.
ReadFile(present, name, ext) ==
    IF ext \notin present THEN Raised("FileNotFoundError")
    ELSE IF "corrupt" \in present THEN Raised("Exception")
    ELSE IF ext = "json" /\ "explanation" \in present THEN ExplanationText(name)
    ELSE FileText(name, ext)

\* The body of the try block of load_ontology_context.
LoadOntologyContextBody(present, name, mode) ==
    IF mode = "ttl" THEN
        IF "ttl" \in present THEN ReadFile(present, name, "ttl")
        ELSE IF "owl" \in present THEN ReadFile(present, name, "owl")
        ELSE IF "rdf" \in present THEN ReadFile(present, name, "rdf")
        ELSE IF "n3" \in present THEN ReadFile(present, name, "n3")
        ELSE ContextError("No ontology file found", name)
    ELSE IF mode = "json" THEN ReadFile(present, name, "json")
    ELSE ContextError("Unknown context mode", name)

\* A variant of CatchLoadError without the except clauses: the exception leaves
\* the function.
CatchLoadErrorNothing(result, name) == result

\* The except clauses of load_ontology_context.
CatchLoadError(result, name) ==
    IF result.kind # "raised" THEN result
    ELSE IF result.type = "FileNotFoundError"
         THEN ContextError("Ontology file not found", name)
         ELSE ContextError("Failed to load ontology", name)

load_ontology_context(present, name, mode) ==
    CatchLoadError(LoadOntologyContextBody(present, name, mode), name)

\* The ontology context of a row: its explanation_context if it has one, else
\* what load_ontology_context returns for its root entity.
ContextOf(r) ==
    IF HasExplanation(r) THEN explanation_context[r]
    ELSE load_ontology_context(FilesOf(RootEntityOf(r)), RootEntityOf(r), context_mode)

\* ---------------------------------------------------------------- prompt

\* "explanation_context" in str(ontology_context)
MentionsExplanationContext(context) ==
    \/ context.kind = "explanation"
    \/ context.kind = "guidance" /\ context.mentions

\* A variant of create_context_specific_prompt whose instruction for a BIN answer
\* asks for TRUE or FALSE alone, in every template.
create_context_specific_prompt_true_false_only(query, context, mode, answer_type) ==
    [template |-> IF mode = "ttl" THEN "sparql_ttl"
                  ELSE IF mode = "json" /\ MentionsExplanationContext(context)
                       THEN "explanation_guidance" ELSE "verbalized",
     query |-> query, context |-> context,
     instruction |-> IF answer_type = "BIN" THEN <<"Answer with TRUE or FALSE only.">>
                     ELSE <<"Provide a clear answer and explain your reasoning.">>]

\* A variant of create_context_specific_prompt that reads the progress counter
\* of the run into the prompt.
create_context_specific_prompt_counting(query, context, mode, answer_type) ==
    [template |-> "sparql_ttl", query |-> query, context |-> <<context, completed>>,
     instruction |-> <<"Provide a clear, precise answer", "Show your reasoning process">>]

\* create_context_specific_prompt: the template chosen, the query and the context
\* it is filled with, and the instruction lines on the answer.
create_context_specific_prompt(query, context, mode, answer_type) ==
    IF mode = "ttl" THEN
        [template |-> "sparql_ttl", query |-> query, context |-> context,
         instruction |-> <<"Provide a clear, precise answer", "Show your reasoning process">>]
    ELSE IF mode = "json" /\ MentionsExplanationContext(context) THEN
        [template |-> "explanation_guidance", query |-> query, context |-> context,
         instruction |-> <<"Show your reasoning process step by step",
                           "Provide a clear, confident answer">>]
    ELSE
        [template |-> "verbalized", query |-> query, context |-> context,
         instruction |->
            <<"Show your reasoning step by step",
              IF answer_type = "BIN"
              THEN "Answer with TRUE or FALSE and explain your reasoning."
              ELSE IF answer_type = "MC"
              THEN "Provide the correct answer(s) and explain your reasoning."
              ELSE "Provide a clear answer and explain your reasoning.">>]

\* ---------------------------------------------------- provider responses

\* A token of choice.logprobs.content: whether its logprob is set (not None), the
\* logprob, and the number of equally likely alternatives its top_logprobs lists
\* (0: no list).
Token(scored, logprob, top) == [scored |-> scored, logprob |-> logprob, top |-> top]

\* choice.logprobs: the tokens of its content.
Logprobs(tokens) == [kind |-> "logprobs", content |-> tokens]

\* A ChatCompletion: choices[0].message.content (a Text, or NoneValue),
\* choices[0].logprobs (a Logprobs, or NoneValue) and usage ("set" | "None").
Response(content, logprobs, usage) ==
    [kind |-> "response", content |-> content, logprobs |-> logprobs, usage |-> usage]

\* A response with content, log-probabilities and usage.
FullResponse ==
    Response(Text(<<"TRUE">>), Logprobs(<<Token(TRUE, 0, 0)>>), "set")
\* The same without log-probabilities.
ResponseWithoutLogprobs == Response(Text(<<"TRUE">>), NoneValue, "set")
\* The same with usage = None.
ResponseWithoutUsage ==
    Response(Text(<<"TRUE">>), Logprobs(<<Token(TRUE, 0, 0)>>), "None")
\* A response whose message has content None.
ResponseWithoutContent == Response(NoneValue, NoneValue, "set")
\* A response whose content is the empty string.
ResponseWithEmptyContent == Response(Text(<< >>), NoneValue, "set")

\* --------------------------------------------------------------- metrics

\* 1.0 in the fixed point unit of the scores: round(x, 4) keeps four decimals.
Unit == 10000

\* round(num / den, 4) of a non-negative quotient, in units of 1 / Unit.
RoundDiv(num, den) == (2 * num + den) \div (2 * den)

RECURSIVE Sum(_)
\* sum(seq)
Sum(seq) == IF seq = << >> THEN 0 ELSE Head(seq) + Sum(Tail(seq))

\* The probabilities are multiples of 1 / ProbUnit.
ProbUnit == 2 ^ LogprobDepth

\* min(1.0, max(0.0, 2 ** token_data.logprob)), in units of 1 / ProbUnit.
Prob(logprob) == IF logprob >= 0 THEN ProbUnit ELSE ProbUnit \div (2 ^ (0 - logprob))

\* The entropy of the normalised top_logprobs of a token, in units of 1 / Unit:
\* ln(k) for k equally likely alternatives.
TokenEntropy(top) == IF top = 1 THEN 0 ELSE IF top = 2 THEN 6931 ELSE 10986

\* The scores calculate_enhanced_confidence_score computes from the tokens of a
\* payload, in units of 1 / Unit.
ConfidenceScores(logprobs_data) ==
    LET tokens == IF logprobs_data = NoneValue THEN << >> ELSE logprobs_data.content
        scored == SelectSeq(tokens, LAMBDA t : t.scored)
        token_probs == [i \in 1 .. Len(scored) |-> Prob(scored[i].logprob)]
        entropies == [i \in 1 .. Len(SelectSeq(scored, LAMBDA t : t.top > 0)) |->
                         TokenEntropy(SelectSeq(scored, LAMBDA t : t.top > 0)[i].top)]
        n == Len(token_probs)
        sq == [i \in 1 .. n |-> token_probs[i] * token_probs[i]]
    IN  [confidence_score |->
             IF n = 0 THEN 0 ELSE RoundDiv(Unit * Sum(token_probs), n * ProbUnit),
         entropy |->
             IF entropies = << >> THEN 0 ELSE RoundDiv(Sum(entropies), Len(entropies)),
         top_token_prob |->
             IF n = 0 THEN 0
             ELSE (Unit * (CHOOSE p \in Range(token_probs) :
                               \A q \in Range(token_probs) : q <= p)) \div ProbUnit,
         consistency_score |->
             IF n > 1
             THEN RoundDiv(Unit * n * n * ProbUnit * ProbUnit,
                           n * n * ProbUnit * ProbUnit
                               + n * Sum(sq) - Sum(token_probs) * Sum(token_probs))
             ELSE Unit]

\* A variant of calculate_enhanced_confidence_score without the early return for
\* a payload without tokens.
calculate_enhanced_confidence_score_unguarded(logprobs_data) ==
    ConfidenceScores(logprobs_data)

\* calculate_enhanced_confidence_score: the four scores, all 0.0 for a missing
\* payload and for one without tokens.
calculate_enhanced_confidence_score(logprobs_data) ==
    IF logprobs_data = NoneValue \/ logprobs_data.content = << >>
    THEN [confidence_score |-> 0, entropy |-> 0, top_token_prob |-> 0,
          consistency_score |-> 0]
    ELSE ConfidenceScores(logprobs_data)

\* str.lower() of a word.
Lower(w) ==
    CASE w = "TRUE" -> "true"
      [] w = "True" -> "true"
      [] w = "FALSE" -> "false"
      [] w = "Unknown" -> "unknown"
      [] OTHER -> w

\* text.lower().strip(), word by word.
LowerWords(words) == [i \in 1 .. Len(words) |-> Lower(words[i])]

\* w ends with sub.
SuffixOf(sub, w) == sub = w \/ (sub = "true" /\ w = "untrue")
\* w starts with sub.
PrefixOf(sub, w) == sub = w
\* "sub in w" for two words.
SubstringOf(sub, w) == SuffixOf(sub, w) \/ PrefixOf(sub, w)

\* "word in text": the word is a substring of the text.
WordIn(word, words) == \E i \in 1 .. Len(words) : SubstringOf(word, words[i])

\* "phrase in text" for a phrase of one or more words.
PhraseIn(phrase, words) ==
    IF Len(phrase) = 1 THEN WordIn(phrase[1], words)
    ELSE \E i \in 1 .. Len(words) - Len(phrase) + 1 :
             /\ SuffixOf(phrase[1], words[i])
             /\ PrefixOf(phrase[Len(phrase)], words[i + Len(phrase) - 1])
             /\ \A j \in 2 .. Len(phrase) - 1 : phrase[j] = words[i + j - 1]

\* A variant of evaluate_response_quality that compares the response with the
\* expected answer as it is written, without lower().
evaluate_response_quality_case_sensitive(response_content, expected_answer, question_type) ==
    IF ~Truthy(response_content)
    THEN [correctness |-> 0, completeness |-> 0]
    ELSE LET response == response_content.words
             expected == IF Truthy(expected_answer) THEN expected_answer.words ELSE << >>
         IN  [correctness |->
                  IF question_type = "BIN" THEN
                      IF expected = <<"true">> THEN
                          IF WordIn("true", response) /\ ~WordIn("false", response) THEN Unit
                          ELSE IF WordIn("true", response) /\ WordIn("false", response)
                               THEN Unit \div 2 ELSE 0
                      ELSE IF expected = <<"false">> THEN
                          IF WordIn("false", response) /\ ~WordIn("true", response) THEN Unit
                          ELSE IF WordIn("false", response) /\ WordIn("true", response)
                               THEN Unit \div 2 ELSE 0
                      ELSE 0
                  ELSE IF expected # << >> /\ PhraseIn(expected, response) THEN Unit
                       ELSE IF \E i \in 1 .. Len(expected) : WordIn(expected[i], response)
                            THEN Unit \div 2 ELSE 0,
              completeness |->
                  IF Len(response) > 50 THEN Unit
                  ELSE IF Len(response) > 20 THEN (7 * Unit) \div 10
                  ELSE IF Len(response) > 10 THEN Unit \div 2
                  ELSE (3 * Unit) \div 10]

\* evaluate_response_quality: correctness and completeness, in units of 1 / Unit
\* (clarity and logical_structure depend on the characters of the response).
evaluate_response_quality(response_content, expected_answer, question_type) ==
    IF ~Truthy(response_content)
    THEN [correctness |-> 0, completeness |-> 0]
    ELSE LET response == LowerWords(response_content.words)
             expected == IF Truthy(expected_answer)
                         THEN LowerWords(expected_answer.words) ELSE << >>
         IN  [correctness |->
                  IF question_type = "BIN" THEN
                      IF expected = <<"true">> THEN
                          IF WordIn("true", response) /\ ~WordIn("false", response) THEN Unit
                          ELSE IF WordIn("true", response) /\ WordIn("false", response)
                               THEN Unit \div 2 ELSE 0
                      ELSE IF expected = <<"false">> THEN
                          IF WordIn("false", response) /\ ~WordIn("true", response) THEN Unit
                          ELSE IF WordIn("false", response) /\ WordIn("true", response)
                               THEN Unit \div 2 ELSE 0
                      ELSE 0
                  ELSE IF expected # << >> /\ PhraseIn(expected, response) THEN Unit
                       ELSE IF \E i \in 1 .. Len(expected) : WordIn(expected[i], response)
                            THEN Unit \div 2 ELSE 0,
              completeness |->
                  IF Len(response) > 50 THEN Unit
                  ELSE IF Len(response) > 20 THEN (7 * Unit) \div 10
                  ELSE IF Len(response) > 10 THEN Unit \div 2
                  ELSE (3 * Unit) \div 10]

\* A row as create_enhanced_metrics_entry reads it: row.get("Answer", "Unknown")
\* and row.get("Answer Type", "BIN").
Row(answer, answer_type) == [Answer |-> answer, answer_type |-> answer_type]

\* A variant of create_enhanced_metrics_entry that reads choice.logprobs.content
\* without testing choice.logprobs: it raises for a response without
\* log-probabilities.
create_enhanced_metrics_entry_requiring_logprobs(idx, row, m, att, response, content, error) ==
    LET enhanced == response # NoneValue /\ error = NoneValue /\ Truthy(content)
    IN  IF enhanced /\ (response.usage = "None" \/ response.logprobs = NoneValue)
        THEN Raised("AttributeError")
        ELSE [kind |-> "entry", query_index |-> idx, model_display_name |-> m,
              attempt_number |-> att + 1, error_occurred |-> error # NoneValue,
              full_response |-> content,
              confidence |->
                  IF ~enhanced THEN NoneValue
                  ELSE [kind |-> "confidence", has_logprobs |-> TRUE,
                        scores |-> calculate_enhanced_confidence_score(response.logprobs)],
              quality |->
                  IF ~enhanced THEN NoneValue
                  ELSE [kind |-> "quality",
                        scores |-> evaluate_response_quality(
                                       content, row.Answer, row.answer_type)]]

\* The fields of create_enhanced_metrics_entry's result that the run reads: the
\* basic fields and, for a response with content and without error, the enhanced
\* ones (NoneValue when they are not set). Raised when response.usage is None:
\* response.usage.completion_tokens is read without a test.
create_enhanced_metrics_entry(idx, row, m, att, response, content, error) ==
    LET enhanced == response # NoneValue /\ error = NoneValue /\ Truthy(content)
    IN  IF enhanced /\ response.usage = "None"
        THEN Raised("AttributeError")
        ELSE [kind |-> "entry", query_index |-> idx, model_display_name |-> m,
              attempt_number |-> att + 1, error_occurred |-> error # NoneValue,
              full_response |-> content,
              confidence |->
                  IF ~enhanced THEN NoneValue
                  ELSE IF response.logprobs # NoneValue
                       THEN [kind |-> "confidence", has_logprobs |-> TRUE,
                             scores |-> calculate_enhanced_confidence_score(response.logprobs)]
                       ELSE [kind |-> "confidence", has_logprobs |-> FALSE,
                             scores |-> [confidence_score |-> 0, entropy |-> 0,
                                         top_token_prob |-> 0, consistency_score |-> 0]],
              quality |->
                  IF ~enhanced THEN NoneValue
                  ELSE [kind |-> "quality",
                        scores |-> evaluate_response_quality(
                                       content, row.Answer, row.answer_type)]]

\* The metric cells df.at[idx, f"{display_name}_confidence"] ... written from an
\* entry: metrics_entry.get(key, 0.0) for each cell.
MetricCells(entry) ==
    [kind |-> "cells", attempt_number |-> entry.attempt_number,
     confidence |-> IF entry.confidence = NoneValue THEN 0
                    ELSE entry.confidence.scores.confidence_score,
     consistency |-> IF entry.confidence = NoneValue THEN 0
                     ELSE entry.confidence.scores.consistency_score,
     quality_correctness |-> IF entry.quality = NoneValue THEN 0
                             ELSE entry.quality.scores.correctness]

\* log_entry of the success path.
LogEntry(idx, m) == [Query_index |-> idx, model |-> m]

\* ------------------------------------------------------------ initial state

\* No function is called on its own.
NoCall == [fn |-> "none"]

\* The state of a run before run_llm_reasoning is called, whatever its arguments.
NoRun ==
    /\ df_response = [r \in Rows |-> [m \in ModelNames |-> NoColumn]]
    /\ df_metrics = [r \in Rows |-> [m \in ModelNames |-> NoColumn]]
    /\ logs = EmptyBag
    /\ detailed_metrics = EmptyBag
    /\ failed_queries = EmptyBag
    /\ completed = 0
    /\ lock = NoOne
    /\ pc = [r \in Rows |-> "none"]
    /\ model_pos = [r \in Rows |-> 0]
    /\ attempt = [r \in Rows |-> 0]
    /\ ontology_context = [r \in Rows |-> Unset]
    /\ query_results = [r \in Rows |-> [m \in ModelNames |-> Unset]]
    /\ query_failed = [r \in Rows |-> FALSE]
    /\ metrics_entry = [r \in Rows |-> NoEntry]
    /\ calls = [r \in Rows |-> [m \in ModelNames |-> <<>>]]
    /\ raised = [r \in Rows |-> [m \in ModelNames |-> 0]]
    /\ caught = [r \in Rows |-> [m \in ModelNames |-> <<>>]]
    /\ sleeps = [r \in Rows |-> [m \in ModelNames |-> <<>>]]
    /\ loads = [entity \in Rows \cup {Unknown} |-> 0]
    /\ main_pc = "start"
    /\ returned = NoEntry

\* The state before run_llm_reasoning is called, no function being called on its own.
NotStarted == NoRun /\ calc = NoCall

\* The models dict with every display name, in order.
AllModels == [i \in 1 .. NumModels |-> i]

\* A batch of NumRows rows and NumModels models on a pool of one to MaxWorkers
\* threads; a provider call answers or raises a connection error; a model's
\* client and a row's ontology file may be missing.
Init ==
    /\ has_question_column \in BOOLEAN
    /\ has_required_columns = TRUE
    /\ models = AllModels
    /\ max_workers \in 1 .. MaxWorkers
    /\ context_mode = "ttl"
    /\ has_client \in [ModelNames -> BOOLEAN]
    /\ base_path_exists = TRUE
    /\ files \in [Rows -> {{"ttl"}, {}}]
    /\ provider_excs = {APIConnectionError}
    /\ provider_responses = {FullResponse}
    /\ show_qa = TRUE
    /\ root_entity = [r \in Rows |-> r]
    /\ explanation_context = [r \in Rows |-> EmptyText]
    /\ index = Rows
    /\ NotStarted

\* ------------------------------------------------------------ the main thread

\* run_llm_reasoning up to the submission of the tasks: the question column
\* check, the initialisation of the result columns, executor.submit for each row.
RunLlmReasoning ==
    /\ main_pc = "start"
    /\ IF ~has_question_column
       THEN /\ main_pc' = "raised"
            /\ UNCHANGED <<df_response, df_metrics, pc>>
       ELSE /\ main_pc' = "pool"
            /\ df_response' = [r \in Rows |-> [m \in ModelNames |->
                    IF r \in index /\ m \in Range(models) THEN EmptyText ELSE NoColumn]]
            /\ df_metrics' = [r \in Rows |-> [m \in ModelNames |->
                    IF r \in index /\ m \in Range(models) THEN ZeroMetrics ELSE NoColumn]]
            /\ pc' = [r \in Rows |-> IF r \in index THEN "queued" ELSE "none"]
    /\ UNCHANGED <<inputs, loads, calc, logs, detailed_metrics, failed_queries, completed, lock,
                   model_pos, attempt, ontology_context, query_results, query_failed,
                   metrics_entry, observed, returned>>

\* The future of a task is done: the task returned, or raised.
Finished(r) == pc[r] \in {"done", "crashed"}

\* A task is being run by a pool thread.
Running(r) == pc[r] \notin {"none", "queued"} /\ ~Finished(r)

\* The with block of the executor has been left: every future is done.
AllDone == \A r \in index : Finished(r)

\* return df, logs, detailed_metrics, deepeval_results: the tuple, each component
\* under the name of the variable returned (df: its response and metric columns).
ReturnValue ==
    [df |-> [response |-> df_response, metrics |-> df_metrics],
     logs |-> logs,
     detailed_metrics |-> detailed_metrics,
     deepeval_results |-> EmptyBag]

\* A variant of Return without the try around future.result(): the exception of
\* a task is raised again in the calling thread.
ReturnReraising ==
    /\ main_pc = "pool"
    /\ AllDone
    /\ IF \E r \in index : pc[r] = "crashed"
       THEN main_pc' = "raised" /\ UNCHANGED returned
       ELSE main_pc' = "returned" /\ returned' = ReturnValue
    /\ UNCHANGED <<inputs, loads, calc, shared, locals, observed>>

\* run_llm_reasoning from the end of the pool to its return: the futures are
\* awaited, an exception of a task is caught and printed, the tuple is returned.
Return ==
    /\ main_pc = "pool"
    /\ AllDone
    /\ main_pc' = "returned"
    /\ returned' = ReturnValue
    /\ UNCHANGED <<inputs, loads, calc, shared, locals, observed>>

\* -------------------------------------------------- process_single_query

\* The row of the task, as create_enhanced_metrics_entry reads it.
RowOf(r) == Row(AnswerOf(r), AnswerTypeOf(r))

\* A variant of CurrentModel that walks the models from the last to the first.
CurrentModelReversed(r) == models[Len(models) + 1 - model_pos[r]]

\* The model the task is at: the loop variable display_name.
CurrentModel(r) == models[model_pos[r]]

\* A variant of ProcessSingleQuery that keeps the contexts it has loaded: the
\* file of an entity is read for the first row of the entity only.
ProcessSingleQueryCached(r) ==
    /\ main_pc = "pool"
    /\ pc[r] = "queued"
    /\ \A q \in index : q < r => pc[q] # "queued"
    /\ Cardinality({q \in index : Running(q)}) < max_workers
    /\ LET context == ContextOf(r)
       IN  IF context.kind = "raised"
           THEN /\ pc' = [pc EXCEPT ![r] = "crashed"]
                /\ UNCHANGED <<ontology_context, model_pos>>
           ELSE /\ ontology_context' = [ontology_context EXCEPT ![r] = context]
                /\ model_pos' = [model_pos EXCEPT ![r] = 1]
                /\ pc' = [pc EXCEPT ![r] = IF Len(models) = 0 THEN "update_df" ELSE "try"]
    /\ attempt' = [attempt EXCEPT ![r] = 0]
    /\ query_results' = [query_results EXCEPT ![r] = [m \in ModelNames |-> Unset]]
    /\ query_failed' = [query_failed EXCEPT ![r] = FALSE]
    /\ loads' = IF HasExplanation(r) THEN loads
                 ELSE [loads EXCEPT ![RootEntityOf(r)] = IF @ = 0 THEN 1 ELSE @]
    /\ UNCHANGED <<inputs, calc, shared, metrics_entry, observed, main_pc, returned>>

\* A pool thread takes the next task from the executor's queue (first in, first
\* out) and runs process_single_query up to the model loop: the ontology context
\* is loaded, query_results and query_failed are initialised.
ProcessSingleQuery(r) ==
    /\ main_pc = "pool"
    /\ pc[r] = "queued"
    /\ \A q \in index : q < r => pc[q] # "queued"
    /\ Cardinality({q \in index : Running(q)}) < max_workers
    /\ LET context == ContextOf(r)
       IN  IF context.kind = "raised"
           THEN /\ pc' = [pc EXCEPT ![r] = "crashed"]
                /\ UNCHANGED <<ontology_context, model_pos>>
           ELSE /\ ontology_context' = [ontology_context EXCEPT ![r] = context]
                /\ model_pos' = [model_pos EXCEPT ![r] = 1]
                /\ pc' = [pc EXCEPT ![r] = IF Len(models) = 0 THEN "update_df" ELSE "try"]
    /\ attempt' = [attempt EXCEPT ![r] = 0]
    /\ query_results' = [query_results EXCEPT ![r] = [m \in ModelNames |-> Unset]]
    /\ query_failed' = [query_failed EXCEPT ![r] = FALSE]
    /\ loads' = IF HasExplanation(r) THEN loads
                 ELSE [loads EXCEPT ![RootEntityOf(r)] = @ + 1]
    /\ UNCHANGED <<inputs, calc, shared, metrics_entry, observed, main_pc, returned>>

\* A variant of IsLastAttempt that is off by one: the first attempt counts as the last.
IsLastAttemptOffByOne(a) == a = max_retries - 2

\* if attempt == max_retries - 1
IsLastAttempt(a) == a = max_retries - 1

\* A variant of HandleException that tells the kinds of exception apart: an
\* exception without a status code is not retried, a rate limit is waited out
\* for longer.
HandleExceptionByKind(r, e, results) ==
    /\ caught' = [caught EXCEPT ![r][CurrentModel(r)] = Append(@, e)]
    /\ IF IsLastAttempt(attempt[r]) \/ (e.status_code = 0 /\ ~e.rate_limit)
       THEN /\ query_results' = [results EXCEPT ![r][CurrentModel(r)] = ErrorMsg(e)]
            /\ query_failed' = [query_failed EXCEPT ![r] = TRUE]
            /\ metrics_entry' = [metrics_entry EXCEPT ![r] =
                   create_enhanced_metrics_entry(r, RowOf(r), CurrentModel(r), attempt[r],
                                                 NoneValue, ErrorMsg(e), e)]
            /\ pc' = [pc EXCEPT ![r] = "lock_failure"]
            /\ UNCHANGED sleeps
       ELSE /\ pc' = [pc EXCEPT ![r] = "sleep"]
            /\ sleeps' = [sleeps EXCEPT ![r][CurrentModel(r)] =
                              Append(@, IF e.rate_limit THEN 5 ELSE 1)]
            /\ query_results' = results
            /\ UNCHANGED <<query_failed, metrics_entry>>

\* The except clause of the attempt: on the last attempt the error text becomes
\* the pair's result and an error entry is created, otherwise the task sleeps
\* for one second. results is query_results as the try block left it.
HandleException(r, e, results) ==
    /\ caught' = [caught EXCEPT ![r][CurrentModel(r)] = Append(@, e)]
    /\ IF IsLastAttempt(attempt[r])
       THEN /\ query_results' = [results EXCEPT ![r][CurrentModel(r)] = ErrorMsg(e)]
            /\ query_failed' = [query_failed EXCEPT ![r] = TRUE]
            /\ metrics_entry' = [metrics_entry EXCEPT ![r] =
                   create_enhanced_metrics_entry(r, RowOf(r), CurrentModel(r), attempt[r],
                                                 NoneValue, ErrorMsg(e), e)]
            /\ pc' = [pc EXCEPT ![r] = "lock_failure"]
            /\ UNCHANGED sleeps
       ELSE /\ pc' = [pc EXCEPT ![r] = "sleep"]
            /\ sleeps' = [sleeps EXCEPT ![r][CurrentModel(r)] = Append(@, 1)]
            /\ query_results' = results
            /\ UNCHANGED <<query_failed, metrics_entry>>

\* A variant of Dispatch that takes the lock before the request goes out, as if
\* the with block enclosed the provider call.
DispatchHoldingLock(r) ==
    /\ pc[r] = "try"
    /\ lock = NoOne
    /\ LET m == CurrentModel(r)
           full_prompt == create_context_specific_prompt(
                              QueryOf(r), ontology_context[r], context_mode, AnswerTypeOf(r))
       IN  IF has_client[m]
           THEN /\ calls' = [calls EXCEPT ![r][m] = Append(@, full_prompt)]
                /\ pc' = [pc EXCEPT ![r] = "call"]
                /\ lock' = r
                /\ UNCHANGED <<query_results, query_failed, metrics_entry, caught, sleeps>>
           ELSE /\ HandleException(r, NoClientError, query_results)
                /\ UNCHANGED <<calls, lock>>
    /\ UNCHANGED <<inputs, loads, calc, df_response, df_metrics, logs, detailed_metrics,
                   failed_queries, completed, model_pos, attempt, ontology_context,
                   raised, main_pc, returned>>

\* The head of an attempt: the prompt is built and the client selected; without a
\* client ValueError is raised, with one the request goes out to the provider.
Dispatch(r) ==
    /\ pc[r] = "try"
    /\ LET m == CurrentModel(r)
           full_prompt == create_context_specific_prompt(
                              QueryOf(r), ontology_context[r], context_mode, AnswerTypeOf(r))
       IN  IF has_client[m]
           THEN /\ calls' = [calls EXCEPT ![r][m] = Append(@, full_prompt)]
                /\ pc' = [pc EXCEPT ![r] = "call"]
                /\ UNCHANGED <<query_results, query_failed, metrics_entry, caught, sleeps>>
           ELSE /\ HandleException(r, NoClientError, query_results)
                /\ UNCHANGED calls
    /\ UNCHANGED <<inputs, loads, calc, shared, model_pos, attempt, ontology_context, raised,
                   main_pc, returned>>

\* response.choices[0].message.content as the run stores it.
ContentValue(m, prompt, response) ==
    IF response.content = NoneValue THEN NoneValue
    ELSE IF response.content.words = << >> THEN EmptyText
    ELSE ContentOf(m, prompt, response.content.words)

\* client.chat.completions.create returns: the content is stored in
\* query_results and the metrics entry is created; the task goes for the lock.
\* An exception raised while the entry is created is caught by the except clause
\* of the attempt.
ProviderReturns(r) ==
    /\ pc[r] = "call"
    /\ \E response \in provider_responses :
          LET m == CurrentModel(r)
              content == ContentValue(m, calls[r][m][Len(calls[r][m])], response)
              results == [query_results EXCEPT ![r][m] = content]
              entry == create_enhanced_metrics_entry(r, RowOf(r), m, attempt[r], response,
                                                     content, NoneValue)
          IN  IF entry.kind = "raised"
              THEN HandleException(r, AttributeError, results)
              ELSE /\ query_results' = results
                   /\ metrics_entry' = [metrics_entry EXCEPT ![r] = entry]
                   /\ pc' = [pc EXCEPT ![r] = "lock_success"]
                   /\ UNCHANGED <<query_failed, caught, sleeps>>
    /\ UNCHANGED <<inputs, loads, calc, shared, model_pos, attempt, ontology_context, calls,
                   raised, main_pc, returned>>

\* client.chat.completions.create raises.
ProviderRaises(r) ==
    /\ pc[r] = "call"
    /\ \E e \in provider_excs : HandleException(r, e, query_results)
    /\ raised' = [raised EXCEPT ![r][CurrentModel(r)] = @ + 1]
    /\ UNCHANGED <<inputs, loads, calc, shared, model_pos, attempt, ontology_context, calls,
                   main_pc, returned>>

\* A variant of NextModel that leaves the model loop once a pair of the row has
\* failed.
NextModelStopOnFailure(r) ==
    IF model_pos[r] < Len(models) /\ ~query_failed[r]
    THEN /\ model_pos' = [model_pos EXCEPT ![r] = @ + 1]
         /\ attempt' = [attempt EXCEPT ![r] = 0]
         /\ pc' = [pc EXCEPT ![r] = "try"]
    ELSE /\ pc' = [pc EXCEPT ![r] = "update_df"]
         /\ UNCHANGED <<model_pos, attempt>>

\* The model loop goes on: the next model, or the end of the loop.
NextModel(r) ==
    IF model_pos[r] < Len(models)
    THEN /\ model_pos' = [model_pos EXCEPT ![r] = @ + 1]
         /\ attempt' = [attempt EXCEPT ![r] = 0]
         /\ pc' = [pc EXCEPT ![r] = "try"]
    ELSE /\ pc' = [pc EXCEPT ![r] = "update_df"]
         /\ UNCHANGED <<model_pos, attempt>>

\* time.sleep(1) returns and "for attempt in range(max_retries)" goes on: the next
\* attempt, or, the range exhausted, the next model.
Backoff(r) ==
    /\ pc[r] = "sleep"
    /\ IF attempt[r] + 1 < max_retries
       THEN /\ attempt' = [attempt EXCEPT ![r] = @ + 1]
            /\ pc' = [pc EXCEPT ![r] = "try"]
            /\ UNCHANGED model_pos
       ELSE NextModel(r)
    /\ UNCHANGED <<inputs, loads, calc, shared, ontology_context, query_results,
                   query_failed, metrics_entry, observed, main_pc, returned>>

\* The positions at which a task waits for the lock, and where it is once inside.
LockSites == {"lock_success", "lock_failure", "lock_progress"}
Inside(site) ==
    CASE site = "lock_success" -> "in_success"
      [] site = "lock_failure" -> "in_failure"
      [] site = "lock_progress" -> "in_progress"

\* with lock: the task enters when the lock is free.
AcquireLock(r) ==
    /\ pc[r] \in LockSites
    /\ lock = NoOne
    /\ lock' = r
    /\ pc' = [pc EXCEPT ![r] = Inside(pc[r])]
    /\ UNCHANGED <<inputs, loads, calc, df_response, df_metrics, logs, detailed_metrics,
                   failed_queries, completed, model_pos, attempt, ontology_context,
                   query_results, query_failed, metrics_entry, observed, main_pc,
                   returned>>

\* The with block of the success path: the entry is appended, the metric cells
\* and the log entry are written, the lock is released; break.
RecordSuccess(r) ==
    /\ pc[r] = "in_success"
    /\ detailed_metrics' = detailed_metrics (+) SetToBag({metrics_entry[r]})
    /\ df_metrics' = [df_metrics EXCEPT ![r][CurrentModel(r)] = MetricCells(metrics_entry[r])]
    /\ logs' = logs (+) SetToBag({LogEntry(r, CurrentModel(r))})
    /\ lock' = NoOne
    /\ metrics_entry' = [metrics_entry EXCEPT ![r] = NoEntry]
    /\ NextModel(r)
    /\ UNCHANGED <<inputs, loads, calc, df_response, failed_queries, completed, ontology_context,
                   query_results, query_failed, observed, main_pc, returned>>

\* A variant of RecordFailure that appends no error entry.
RecordFailureNoEntry(r) ==
    /\ pc[r] = "in_failure"
    /\ lock' = NoOne
    /\ metrics_entry' = [metrics_entry EXCEPT ![r] = NoEntry]
    /\ NextModel(r)
    /\ UNCHANGED <<inputs, loads, calc, df_response, df_metrics, logs, detailed_metrics,
                   failed_queries, completed, ontology_context, query_results,
                   query_failed, observed, main_pc, returned>>

\* The with block of the last failed attempt: the error entry is appended.
RecordFailure(r) ==
    /\ pc[r] = "in_failure"
    /\ detailed_metrics' = detailed_metrics (+) SetToBag({metrics_entry[r]})
    /\ lock' = NoOne
    /\ metrics_entry' = [metrics_entry EXCEPT ![r] = NoEntry]
    /\ NextModel(r)
    /\ UNCHANGED <<inputs, loads, calc, df_response, df_metrics, logs, failed_queries, completed,
                   ontology_context, query_results, query_failed, observed, main_pc,
                   returned>>

\* query_results.get(display_name, "[ERROR] No response")
ResponseFor(results, m) == IF results[m] = Unset THEN NoResponseText ELSE results[m]

\* A variant of UpdateDataFrame that writes the cells of the answered models only.
UpdateDataFrameSkipFailed(r) ==
    /\ pc[r] = "update_df"
    /\ df_response' = [df_response EXCEPT ![r] = [m \in ModelNames |->
            IF m \in Range(models) /\ query_results[r][m].kind = "content"
            THEN query_results[r][m] ELSE @[m]]]
    /\ pc' = [pc EXCEPT ![r] = "lock_progress"]
    /\ UNCHANGED <<inputs, loads, calc, df_metrics, logs, detailed_metrics, failed_queries, completed,
                   lock, model_pos, attempt, ontology_context, query_results,
                   query_failed, metrics_entry, observed, main_pc, returned>>

\* A variant of UpdateDataFrame that keys the write by the completion sequence:
\* the results go to the row after the rows completed so far.
UpdateDataFrameByCompletion(r) ==
    /\ pc[r] = "update_df"
    /\ df_response' = [df_response EXCEPT ![completed + 1] = [m \in ModelNames |->
            IF m \in Range(models) THEN ResponseFor(query_results[r], m) ELSE @[m]]]
    /\ pc' = [pc EXCEPT ![r] = "lock_progress"]
    /\ UNCHANGED <<inputs, loads, calc, df_metrics, logs, detailed_metrics, failed_queries, completed,
                   lock, model_pos, attempt, ontology_context, query_results,
                   query_failed, metrics_entry, observed, main_pc, returned>>

\* "# Update DataFrame": the response cell of every model of the row is written.
UpdateDataFrame(r) ==
    /\ pc[r] = "update_df"
    /\ df_response' = [df_response EXCEPT ![r] = [m \in ModelNames |->
            IF m \in Range(models) THEN ResponseFor(query_results[r], m) ELSE @[m]]]
    /\ pc' = [pc EXCEPT ![r] = "lock_progress"]
    /\ UNCHANGED <<inputs, loads, calc, df_metrics, logs, detailed_metrics, failed_queries, completed,
                   lock, model_pos, attempt, ontology_context, query_results,
                   query_failed, metrics_entry, observed, main_pc, returned>>

\* The summary printed when show_qa is set slices every result: result[:100]
\* raises TypeError for a result that is None.
PrintRaises(r) ==
    show_qa /\ \E m \in Range(models) : ResponseFor(query_results[r], m) = NoneValue

\* A variant of TrackProgress that appends the index of the row once for every
\* failed pair of the row.
TrackProgressAppendingPerPair(r) ==
    /\ pc[r] = "in_progress"
    /\ completed' = completed + 1
    /\ failed_queries' =
           LET n == Cardinality({m \in Range(models) : query_results[r][m].kind = "error"})
           IN  IF n = 0 THEN failed_queries ELSE failed_queries (+) [x \in {r} |-> n]
    /\ lock' = NoOne
    /\ pc' = [pc EXCEPT ![r] = IF PrintRaises(r) THEN "crashed" ELSE "done"]
    /\ UNCHANGED <<inputs, loads, calc, df_response, df_metrics, logs, detailed_metrics, model_pos,
                   attempt, ontology_context, query_results, query_failed,
                   metrics_entry, observed, main_pc, returned>>

\* A variant of TrackProgress that counts the rows without a failed pair only.
TrackProgressCountingSuccesses(r) ==
    /\ pc[r] = "in_progress"
    /\ completed' = IF query_failed[r] THEN completed ELSE completed + 1
    /\ failed_queries' = IF query_failed[r]
                         THEN failed_queries (+) SetToBag({r})
                         ELSE failed_queries
    /\ lock' = NoOne
    /\ pc' = [pc EXCEPT ![r] = IF PrintRaises(r) THEN "crashed" ELSE "done"]
    /\ UNCHANGED <<inputs, loads, calc, df_response, df_metrics, logs, detailed_metrics, model_pos,
                   attempt, ontology_context, query_results, query_failed,
                   metrics_entry, observed, main_pc, returned>>

\* A variant of TrackProgress that leaves the lock held when the print raises.
TrackProgressKeepingLockOnError(r) ==
    /\ pc[r] = "in_progress"
    /\ completed' = completed + 1
    /\ failed_queries' = IF query_failed[r]
                         THEN failed_queries (+) SetToBag({r})
                         ELSE failed_queries
    /\ lock' = IF PrintRaises(r) THEN lock ELSE NoOne
    /\ pc' = [pc EXCEPT ![r] = IF PrintRaises(r) THEN "crashed" ELSE "done"]
    /\ UNCHANGED <<inputs, loads, calc, df_response, df_metrics, logs, detailed_metrics, model_pos,
                   attempt, ontology_context, query_results, query_failed,
                   metrics_entry, observed, main_pc, returned>>

\* "# Track progress": completed is incremented and a failed row's index is
\* appended to failed_queries, the summary of the row is printed; the lock is
\* released and the task returns, or raises what the print raised.
TrackProgress(r) ==
    /\ pc[r] = "in_progress"
    /\ completed' = completed + 1
    /\ failed_queries' = IF query_failed[r]
                         THEN failed_queries (+) SetToBag({r})
                         ELSE failed_queries
    /\ lock' = NoOne
    /\ pc' = [pc EXCEPT ![r] = IF PrintRaises(r) THEN "crashed" ELSE "done"]
    /\ UNCHANGED <<inputs, loads, calc, df_response, df_metrics, logs, detailed_metrics, model_pos,
                   attempt, ontology_context, query_results, query_failed,
                   metrics_entry, observed, main_pc, returned>>

\* ------------------------------------------------------------ specification

Next ==
    \/ RunLlmReasoning
    \/ Return
    \/ \E r \in Rows : ProcessSingleQuery(r)
    \/ \E r \in Rows : Dispatch(r)
    \/ \E r \in Rows : ProviderReturns(r)
    \/ \E r \in Rows : ProviderRaises(r)
    \/ \E r \in Rows : Backoff(r)
    \/ \E r \in Rows : AcquireLock(r)
    \/ \E r \in Rows : RecordSuccess(r)
    \/ \E r \in Rows : RecordFailure(r)
    \/ \E r \in Rows : UpdateDataFrame(r)
    \/ \E r \in Rows : TrackProgress(r)

Spec == Init /\ [][Next]_vars

\* A step of a pool thread.
WorkerStep ==
    \E r \in Rows :
        \/ ProcessSingleQuery(r) \/ Dispatch(r) \/ ProviderReturns(r) \/ ProviderRaises(r)
        \/ Backoff(r) \/ AcquireLock(r) \/ RecordSuccess(r) \/ RecordFailure(r)
        \/ UpdateDataFrame(r) \/ TrackProgress(r)

\* ------------------------------------------------- validate_experiment_inputs

\* The errors validate_experiment_inputs collects for the arguments of the run;
\* it raises ValueError when there is one. No function of the module calls it.
validate_experiment_inputs ==
    (IF index = {} THEN {"DataFrame is empty"} ELSE {})
    \cup (IF ~has_question_column THEN {"Question column not found"} ELSE {})
    \cup (IF ~has_required_columns THEN {"Missing required columns"} ELSE {})
    \cup (IF ~base_path_exists THEN {"Ontology base path does not exist"} ELSE {})
    \cup (IF Len(models) = 0 THEN {"No models specified"} ELSE {})
    \cup (IF \E m \in Range(models) : ~has_client[m] THEN {"Missing API keys"} ELSE {})

\* ------------------------------------------------- other classes of runs

\* One row; the providers raise exceptions of every shape.
InitErr ==
    /\ has_question_column = TRUE
    /\ has_required_columns = TRUE
    /\ models = AllModels
    /\ max_workers = 1
    /\ context_mode = "ttl"
    /\ has_client \in [ModelNames -> BOOLEAN]
    /\ base_path_exists = TRUE
    /\ files = [r \in Rows |-> {"ttl"}]
    /\ provider_excs = AllExceptions
    /\ provider_responses = {FullResponse}
    /\ show_qa = TRUE
    /\ root_entity = [r \in Rows |-> r]
    /\ explanation_context = [r \in Rows |-> EmptyText]
    /\ index = {1}
    /\ NotStarted

SpecErr == InitErr /\ [][Next]_vars

\* One row; every combination of the configuration errors: a missing question
\* column, missing required columns, an empty model set, a missing client, an
\* ontology directory that does not exist.
InitCfg ==
    /\ has_question_column \in BOOLEAN
    /\ has_required_columns \in BOOLEAN
    /\ models \in {<< >>, AllModels}
    /\ max_workers = 1
    /\ context_mode = "ttl"
    /\ has_client \in [ModelNames -> BOOLEAN]
    /\ base_path_exists \in BOOLEAN
    /\ files = [r \in Rows |-> IF base_path_exists THEN {"ttl"} ELSE {}]
    /\ provider_excs = {APIConnectionError}
    /\ provider_responses = {FullResponse}
    /\ show_qa = TRUE
    /\ root_entity = [r \in Rows |-> r]
    /\ explanation_context = [r \in Rows |-> EmptyText]
    /\ index = {1}
    /\ NotStarted

SpecCfg == InitCfg /\ [][Next]_vars

\* The file sets a row's entity is given.
FileSets == SUBSET (Extensions \cup {"corrupt", "explanation"})

\* One row; every context mode and every set of files for the row's entity.
InitCtx ==
    /\ has_question_column = TRUE
    /\ has_required_columns = TRUE
    /\ models = AllModels
    /\ max_workers = 1
    /\ context_mode \in {"ttl", "json", "xml"}
    /\ has_client \in {[m \in ModelNames |-> TRUE], [m \in ModelNames |-> m # 1]}
    /\ base_path_exists = TRUE
    /\ \E present \in FileSets : files = [r \in Rows |-> present]
    /\ provider_excs = {APIConnectionError}
    /\ provider_responses = {FullResponse}
    /\ show_qa = TRUE
    /\ root_entity = [r \in Rows |-> r]
    /\ explanation_context = [r \in Rows |-> EmptyText]
    /\ index = {1}
    /\ NotStarted

SpecCtx == InitCtx /\ [][Next]_vars

\* The responses a provider may return: with and without log-probabilities, with
\* usage None, with content None, with empty content.
ResponseShapes ==
    {FullResponse, ResponseWithoutLogprobs, ResponseWithoutUsage,
     ResponseWithoutContent, ResponseWithEmptyContent}

\* One row; a provider call raises or returns a response of any shape; the
\* summary of the row is printed or not.
InitResp ==
    /\ has_question_column = TRUE
    /\ has_required_columns = TRUE
    /\ models = AllModels
    /\ max_workers = 1
    /\ context_mode = "ttl"
    /\ has_client = [m \in ModelNames |-> TRUE]
    /\ base_path_exists = TRUE
    /\ files = [r \in Rows |-> {"ttl"}]
    /\ provider_excs = {APIConnectionError}
    /\ provider_responses = ResponseShapes
    /\ show_qa \in BOOLEAN
    /\ root_entity = [r \in Rows |-> r]
    /\ explanation_context = [r \in Rows |-> EmptyText]
    /\ index = {1}
    /\ NotStarted

SpecResp == InitResp /\ [][Next]_vars

\* A batch on a pool of one to MaxWorkers threads whose providers raise, answer,
\* or return a response with content None; the summary of each row is printed.
InitCrash ==
    /\ has_question_column = TRUE
    /\ has_required_columns = TRUE
    /\ models = AllModels
    /\ max_workers \in 1 .. MaxWorkers
    /\ context_mode = "ttl"
    /\ has_client = [m \in ModelNames |-> TRUE]
    /\ base_path_exists = TRUE
    /\ files = [r \in Rows |-> {"ttl"}]
    /\ provider_excs = {APIConnectionError}
    /\ provider_responses = {FullResponse, ResponseWithoutContent}
    /\ show_qa = TRUE
    /\ root_entity = [r \in Rows |-> r]
    /\ explanation_context = [r \in Rows |-> EmptyText]
    /\ index = Rows
    /\ NotStarted

SpecCrash == InitCrash /\ [][Next]_vars

\* One row; a provider call raises or returns a response with content and usage,
\* and in one class of runs every response has log-probabilities, in the other
\* none has.
InitNoLogprobs ==
    /\ has_question_column = TRUE
    /\ has_required_columns = TRUE
    /\ models = AllModels
    /\ max_workers = 1
    /\ context_mode = "ttl"
    /\ has_client = [m \in ModelNames |-> TRUE]
    /\ base_path_exists = TRUE
    /\ files = [r \in Rows |-> {"ttl"}]
    /\ provider_excs = {APIConnectionError}
    /\ provider_responses \in {{FullResponse}, {ResponseWithoutLogprobs}}
    /\ show_qa \in BOOLEAN
    /\ root_entity = [r \in Rows |-> r]
    /\ explanation_context = [r \in Rows |-> EmptyText]
    /\ index = {1}
    /\ NotStarted

SpecNoLogprobs == InitNoLogprobs /\ [][Next]_vars

\* A batch whose rows name an entity each or all the same entity.
InitEntity ==
    /\ has_question_column = TRUE
    /\ has_required_columns = TRUE
    /\ models = AllModels
    /\ max_workers \in 1 .. MaxWorkers
    /\ context_mode = "ttl"
    /\ has_client = [m \in ModelNames |-> TRUE]
    /\ base_path_exists = TRUE
    /\ files = [r \in Rows |-> {"ttl"}]
    /\ provider_excs = {APIConnectionError}
    /\ provider_responses = {FullResponse}
    /\ show_qa = TRUE
    /\ root_entity \in {[r \in Rows |-> r], [r \in Rows |-> 1]}
    /\ explanation_context = [r \in Rows |-> EmptyText]
    /\ index = Rows
    /\ NotStarted

SpecEntity == InitEntity /\ [][Next]_vars

\* One row, with or without an explanation in its "explanation_context" cell, and
\* a json file that mentions "explanation_context" or does not.
InitGuidance ==
    /\ has_question_column = TRUE
    /\ has_required_columns = TRUE
    /\ models = AllModels
    /\ max_workers = 1
    /\ context_mode \in {"ttl", "json"}
    /\ has_client = [m \in ModelNames |-> TRUE]
    /\ base_path_exists = TRUE
    /\ \E present \in {{"ttl", "json"}, {"ttl", "json", "explanation"}} :
          files = [r \in Rows |-> present]
    /\ provider_excs = {APIConnectionError}
    /\ provider_responses = {FullResponse}
    /\ show_qa = TRUE
    /\ root_entity = [r \in Rows |-> r]
    /\ \E guidance \in {EmptyText, GuidanceText(1, FALSE), GuidanceText(1, TRUE)} :
          explanation_context = [r \in Rows |-> guidance]
    /\ index = {1}
    /\ NotStarted

SpecGuidance == InitGuidance /\ [][Next]_vars

\* ---------------------------------------------------------------- resume

\* A column of the table that belongs to no model.
InputColumn(name) == <<NoOne, name>>
\* The question column.
QuestionColumn == InputColumn("Question")

\* The suffix of the response column of a model.
response_column == "_response"
\* The suffixes of the ten metric columns of a model.
metric_columns ==
    {"_confidence", "_entropy", "_consistency", "_response_time", "_token_count",
     "_reasoning_steps", "_quality_correctness", "_quality_completeness",
     "_quality_clarity", "_quality_logical_structure"}

\* The suffixes resume_failed_queries copies back, in order.
enhanced_columns ==
    <<"_response", "_confidence", "_entropy", "_consistency", "_response_time",
      "_token_count", "_reasoning_steps", "_quality_correctness",
      "_quality_completeness", "_quality_clarity", "_quality_logical_structure">>

\* The columns run_llm_reasoning creates: f"{display_name}{suffix}" for the
\* response and, with save_detailed_metrics, for the ten metrics.
ResultColumns(mods, detailed) ==
    {<<m, response_column>> : m \in Range(mods)}
        \cup (IF detailed THEN Range(mods) \X metric_columns ELSE {})

\* A cell: the run that wrote it, the label of the row whose question it answers
\* (or holds), and its column.
Cell(run, row, column) == [kind |-> "cell", run |-> run, row |-> row, column |-> column]
\* The cell of a row or column that an assignment to another cell created.
NaN == [kind |-> "NaN"]

\* A DataFrame: the labels of its rows by position (position 0 first), its
\* columns and its cells by label and column.
DataFrame(labels, columns, cells) ==
    [kind |-> "table", labels |-> labels, columns |-> columns, cells |-> cells]

\* The input table with the given row labels.
InputTable(labels) ==
    DataFrame(labels, {QuestionColumn},
              [l \in Range(labels) |-> [c \in {QuestionColumn} |-> Cell("input", l, c)]])

\* The table run_llm_reasoning returns for df: every result column of every row
\* created or overwritten with the result for the row's question.
RunTable(df, mods, detailed, run) ==
    LET cols == ResultColumns(mods, detailed)
    IN  DataFrame(df.labels, df.columns \cup cols,
                  [l \in Range(df.labels) |->
                      [c \in df.columns \cup cols |->
                          IF c \in cols
                          THEN Cell(run, df.cells[l][QuestionColumn].row, c)
                          ELSE df.cells[l][c]]])

\* df.iloc[positions].copy().reset_index(drop=True): the rows at the positions,
\* labelled 0, 1, ...
Iloc(df, positions) ==
    DataFrame([i \in 1 .. Len(positions) |-> i - 1], df.columns,
              [l \in 0 .. Len(positions) - 1 |-> df.cells[df.labels[positions[l + 1] + 1]]])

\* A response cell that holds "[ERROR] ...": the pair failed in the run.
FailedCell(run, row, column) ==
    [kind |-> "failed_cell", run |-> run, row |-> row, column |-> column]

\* The table of the first run: that of RunTable, in which the pairs of the model
\* failed_model failed in the rows failed_rows and every other pair succeeded.
FirstRunTable(labels, mods, detailed, failed_model, failed_rows) ==
    LET t == RunTable(InputTable(labels), mods, detailed, "first")
        c == <<failed_model, response_column>>
    IN  DataFrame(t.labels, t.columns,
                  [l \in Range(t.labels) |->
                      IF l \in failed_rows
                      THEN [t.cells[l] EXCEPT ![c] = FailedCell("first", l, c)]
                      ELSE t.cells[l]])

RECURSIVE AppendNew(_, _)
\* The labels after df.at[label, col] = value for each label in turn: a label the
\* table does not have becomes a new last row.
AppendNew(labels, items) ==
    IF items = << >> THEN labels
    ELSE AppendNew(IF Head(items) \in Range(labels) THEN labels
                   ELSE Append(labels, Head(items)),
                   Tail(items))

\* resume_failed_queries: the table it returns, or the exception it raises.
resume_failed_queries(df, failed_indices, mods) ==
    IF failed_indices = << >> THEN df
    ELSE IF \E i \in DOMAIN failed_indices : failed_indices[i] >= Len(df.labels)
    THEN Raised("IndexError")
    ELSE LET result_df == RunTable(Iloc(df, failed_indices), mods, TRUE, "resumed")
             copied == (Range(mods) \X Range(enhanced_columns)) \cap result_df.columns
             labels == AppendNew(df.labels, failed_indices)
             columns == df.columns \cup copied
             last(l) == CHOOSE i \in 0 .. Len(failed_indices) :
                            /\ i > 0 => failed_indices[i] = l
                            /\ \A j \in i + 1 .. Len(failed_indices) : failed_indices[j] # l
         IN  DataFrame(labels, columns,
                       [l \in Range(labels) |->
                           [c \in columns |->
                               IF c \in copied /\ last(l) > 0
                               THEN result_df.cells[last(l) - 1][c]
                               ELSE IF l \in Range(df.labels) /\ c \in df.columns
                                    THEN df.cells[l][c]
                                    ELSE NaN]])

\* ------------------------------------------------- functions on their own

\* A call of a function on its own, before it returns.
Call(fn, args) == [fn |-> fn, args |-> args, done |-> FALSE, result |-> NoneValue]

\* The tokens of a log-probability payload: one without logprob, or one with a
\* logprob of 0 .. -LogprobDepth and with or without two top alternatives.
Tokens ==
    {Token(FALSE, 0, 0)}
        \cup {Token(TRUE, 0 - d, top) : d \in 0 .. LogprobDepth, top \in {0, 2}}

RECURSIVE SeqsUpTo(_, _)
\* The sequences over S of length at most n.
SeqsUpTo(S, n) ==
    IF n = 0 THEN {<< >>}
    ELSE LET shorter == SeqsUpTo(S, n - 1)
         IN  shorter \cup {Append(s, x) : s \in shorter, x \in S}

\* The payloads: None, or up to MaxTokens tokens.
Payloads == {NoneValue} \cup {Logprobs(tokens) : tokens \in SeqsUpTo(Tokens, MaxTokens)}

\* The words of the responses and of the expected answers.
Words == {"TRUE", "True", "true", "FALSE", "false", "untrue", "alice"}
\* The texts of up to MaxWords words, and None.
Texts == {NoneValue} \cup {Text(words) : words \in SeqsUpTo(Words, MaxWords)}
\* The expected answers: None, the empty text, one word, and a phrase of two
\* words.
ExpectedAnswers ==
    {NoneValue, Text(<<"alice", "untrue">>)}
        \cup {Text(words) : words \in SeqsUpTo(Words, 1)}

\* The row labels of a table of up to NumRows rows: the default labels 0, 1, ...
\* or those of a table some of whose first rows were filtered out.
LabelSeqs ==
    {[i \in 1 .. n |-> i - 1 + skip] : n \in 1 .. NumRows, skip \in 0 .. NumRows}

\* The calls made on their own.
CallsOnTheirOwn ==
    {Call("calculate_enhanced_confidence_score", [logprobs_data |-> p]) : p \in Payloads}
        \cup {Call("evaluate_response_quality",
                   [response_content |-> t, expected_answer |-> e, question_type |-> q]) :
                  t \in Texts, e \in ExpectedAnswers, q \in {"BIN", "MC"}}
        \cup UNION {{Call("resume_failed_queries",
                          [labels |-> l, models |-> [i \in 1 .. n |-> i],
                           save_detailed_metrics |-> d, failed_indices |-> f,
                           failed_model |-> fm]) :
                         l \in LabelSeqs, d \in BOOLEAN,
                         f \in SeqsUpTo(0 .. 2 * NumRows - 1, NumRows), fm \in 1 .. n} :
                    n \in 1 .. NumModels}

\* calculate_enhanced_confidence_score(logprobs_data) returns.
CalculateEnhancedConfidenceScore ==
    /\ calc.fn = "calculate_enhanced_confidence_score" /\ ~calc.done
    /\ calc' = [calc EXCEPT !.done = TRUE,
                   !.result = calculate_enhanced_confidence_score(calc.args.logprobs_data)]
    /\ UNCHANGED <<inputs, loads, shared, locals, observed, main_pc, returned>>

\* evaluate_response_quality(response_content, expected_answer, question_type)
\* returns.
EvaluateResponseQuality ==
    /\ calc.fn = "evaluate_response_quality" /\ ~calc.done
    /\ calc' = [calc EXCEPT !.done = TRUE,
                   !.result = evaluate_response_quality(
                                  calc.args.response_content, calc.args.expected_answer,
                                  calc.args.question_type)]
    /\ UNCHANGED <<inputs, loads, shared, locals, observed, main_pc, returned>>

\* The table passed to resume_failed_queries: that of a run with the call's models
\* and save_detailed_metrics, in which the pairs of one model failed in the rows
\* that failed_indices names.
TableOf(args) ==
    FirstRunTable(args.labels, args.models, args.save_detailed_metrics,
                  args.failed_model, Range(args.failed_indices))

\* resume_failed_queries(df, failed_indices, ...) returns or raises.
ResumeFailedQueries ==
    /\ calc.fn = "resume_failed_queries" /\ ~calc.done
    /\ calc' = [calc EXCEPT !.done = TRUE,
                   !.result = resume_failed_queries(TableOf(calc.args),
                                  calc.args.failed_indices, calc.args.models)]
    /\ UNCHANGED <<inputs, loads, shared, locals, observed, main_pc, returned>>

NextCalls ==
    \/ CalculateEnhancedConfidenceScore
    \/ EvaluateResponseQuality
    \/ ResumeFailedQueries

\* No run; one function is called on its own.
InitCalls ==
    /\ has_question_column = TRUE
    /\ has_required_columns = TRUE
    /\ models = AllModels
    /\ max_workers = 1
    /\ context_mode = "ttl"
    /\ has_client = [m \in ModelNames |-> TRUE]
    /\ base_path_exists = TRUE
    /\ files = [r \in Rows |-> {"ttl"}]
    /\ provider_excs = {APIConnectionError}
    /\ provider_responses = {FullResponse}
    /\ show_qa = TRUE
    /\ root_entity = [r \in Rows |-> r]
    /\ explanation_context = [r \in Rows |-> EmptyText]
    /\ index = Rows
    /\ NoRun
    /\ calc \in CallsOnTheirOwn

SpecCalls == InitCalls /\ [][NextCalls]_vars

\* ------------------------------------------------------------------ claims

\* The display names of the run.
ModelsOfRun == Range(models)
\* A response cell holds a result: the provider's content or an error text.
Recorded(v) == v.kind \in {"content", "error"}
\* The pair's result is an error text.
PairFailed(r, m) == query_results[r][m].kind = "error"
\* The model loop of the task is over.
LoopOver(r) == pc[r] \in {"update_df", "lock_progress", "in_progress", "done"}
\* The task has been taken by a pool thread.
Started(r) == pc[r] \notin {"none", "queued"}
\* The positions inside a with lock block.
InMemoryUpdate == {"in_success", "in_failure", "in_progress"}

\* C1: once run_llm_reasoning has returned, the rows of the returned table are the
\* input rows, and the response cell of every (row, model) pair holds one result:
\* the content the model's provider returned for the row's query, or an error
\* text; this includes the runs in which pairs failed.
C1_OneRecordPerPair ==
    (main_pc = "returned" /\ Len(models) > 0) =>
        /\ {r \in Rows : \E m \in ModelNames : returned.df.response[r][m] # NoColumn} = index
        /\ \A r \in index : \A m \in ModelsOfRun :
              LET v == returned.df.response[r][m]
              IN  \/ v.kind = "error"
                  \/ /\ v.kind = "content"
                     /\ v.model = m
                     /\ v.prompt.query = QueryOf(r)

\* A run has returned in which a row has a failed pair and an answered pair.
C1_Witness ==
    /\ main_pc = "returned"
    /\ \E r \in index : \E m1, m2 \in ModelsOfRun :
          /\ returned.df.response[r][m1].kind = "error"
          /\ returned.df.response[r][m2].kind = "content"

\* C2: no pair is sent to its provider more than max_retries times, and a pair
\* whose every attempt ended in an exception raised by the provider call is
\* recorded as failed only after exactly max_retries provider calls.
C2_RetryCeiling ==
    \A r \in Rows : \A m \in ModelNames :
        /\ Len(calls[r][m]) <= max_retries
        /\ (PairFailed(r, m) /\ raised[r][m] = Len(caught[r][m])) =>
              /\ Len(calls[r][m]) = max_retries
              /\ raised[r][m] = max_retries

\* A pair has been recorded as failed after the provider raised max_retries times.
C2_Witness ==
    \E r \in index : \E m \in ModelsOfRun :
        /\ PairFailed(r, m)
        /\ raised[r][m] = max_retries
        /\ Len(calls[r][m]) = max_retries

\* C3: a task is never aborted, and once its model loop is over every pair of the
\* row has its own result, whatever happened to the other pairs: a pair with a
\* client was sent to the provider once for each time its own call raised, plus
\* once if it was answered, and at least once; once the task has returned, the
\* pair's response cell holds that result.
C3_PairsIndependent ==
    \A r \in index :
        /\ pc[r] # "crashed"
        /\ LoopOver(r) => \A m \in ModelsOfRun :
              /\ Recorded(query_results[r][m])
              /\ has_client[m] =>
                    /\ Len(calls[r][m]) >= 1
                    /\ Len(calls[r][m]) = raised[r][m]
                          + (IF query_results[r][m].kind = "content" THEN 1 ELSE 0)
              /\ ~has_client[m] => Len(calls[r][m]) = 0
              /\ pc[r] = "done" => df_response[r][m] = query_results[r][m]

\* A pair of a row has failed, a later pair of the same row was answered at its
\* first call, and another row has returned with an answered pair.
C3_Witness ==
    \E r, q \in index : \E m1, m2, m3 \in ModelsOfRun :
        /\ r # q
        /\ m1 < m2
        /\ LoopOver(r)
        /\ PairFailed(r, m1)
        /\ query_results[r][m2].kind = "content"
        /\ Len(calls[r][m2]) = 1
        /\ pc[q] = "done"
        /\ df_response[q][m3].kind = "content"

\* Some state shared by the workers changes in the step.
SharedStateChanges ==
    \/ df_response' # df_response
    \/ df_metrics' # df_metrics
    \/ logs' # logs
    \/ detailed_metrics' # detailed_metrics
    \/ failed_queries' # failed_queries
    \/ completed' # completed

\* C4: while the workers run, every step that changes the response or metric
\* columns of the table, logs, detailed_metrics, failed_queries or completed is
\* taken by the task that holds the lock.
C4_MutationsUnderLock ==
    [][(main_pc = "pool" /\ SharedStateChanges) =>
          (lock # NoOne /\ pc'[lock] # pc[lock])]_vars

\* C5: a task whose provider call is in flight, or which sleeps between two
\* attempts, does not hold the lock; whoever holds the lock is inside one of the
\* in-memory update blocks.
C5_NoLockAcrossCallOrSleep ==
    /\ \A r \in Rows : pc[r] \in {"call", "sleep"} => lock # r
    /\ lock # NoOne => pc[lock] \in InMemoryUpdate

\* A task holds the lock while the provider call of another task is in flight, or
\* while another task sleeps between two attempts.
C5_Witness ==
    \E r, q \in index :
        /\ r # q
        /\ pc[r] \in {"call", "sleep"}
        /\ lock = q

C7_FailedIndicesReturned ==
    (main_pc = "returned" /\ failed_queries # EmptyBag) =>
        "failed_queries" \in DOMAIN returned

\* C8: a run whose configuration validate_experiment_inputs rejects does not
\* return normally, and no pair of it is sent to a provider.
C8_ConfigErrorAborts ==
    validate_experiment_inputs # {} =>
        /\ main_pc # "returned"
        /\ \A r \in Rows : \A m \in ModelNames : calls[r][m] = << >>

\* No file load_ontology_context looks for exists for the row's entity.
ContextFileMissing(r) ==
    \/ /\ context_mode = "ttl"
       /\ FilesOf(RootEntityOf(r)) \cap {"ttl", "owl", "rdf", "n3"} = {}
    \/ /\ context_mode = "json"
       /\ "json" \notin FilesOf(RootEntityOf(r))

\* C9: for a row whose context file is missing the task does not raise; its
\* context is the placeholder of the mode, every prompt sent for the row carries
\* that placeholder, every model with a client is called, and once the task has
\* returned every model's response cell holds a result.
C9_MissingContextPlaceholder ==
    \A r \in index : ContextFileMissing(r) =>
        /\ pc[r] # "crashed"
        /\ Started(r) =>
              ontology_context[r] =
                  ContextError(IF context_mode = "ttl" THEN "No ontology file found"
                               ELSE "Ontology file not found", RootEntityOf(r))
        /\ \A m \in ModelsOfRun : \A i \in 1 .. Len(calls[r][m]) :
              calls[r][m][i].context = ontology_context[r]
        /\ LoopOver(r) => \A m \in ModelsOfRun : has_client[m] => Len(calls[r][m]) >= 1
        /\ pc[r] = "done" => \A m \in ModelsOfRun : Recorded(df_response[r][m])

\* The task of a row without a context file has returned, and a model answered the
\* prompt that carries the placeholder.
C9_Witness ==
    \E r \in index : \E m \in ModelsOfRun :
        /\ ContextFileMissing(r)
        /\ context_mode = "json"
        /\ pc[r] = "done"
        /\ df_response[r][m].kind = "content"
        /\ df_response[r][m].prompt.context.kind = "ctxerror"

\* C10: the detailed_metrics a run returns holds one entry for every (row, model)
\* pair and no other: as many entries as pairs, and for each pair an entry that
\* occurs once and says whether the pair failed; for every pool width.
C10_OneMetricsEntryPerPair ==
    main_pc = "returned" =>
        /\ BagCardinality(returned.detailed_metrics) = Cardinality(index) * Len(models)
        /\ \A r \in index : \A m \in ModelsOfRun :
              \E e \in BagToSet(returned.detailed_metrics) :
                  /\ e.query_index = r
                  /\ e.model_display_name = m
                  /\ e.error_occurred = PairFailed(r, m)
                  /\ CopiesIn(e, returned.detailed_metrics) = 1

\* A run on a pool of MaxWorkers threads has returned NumRows x NumModels entries,
\* one of a failed pair and one of an answered pair.
C10_Witness ==
    /\ main_pc = "returned"
    /\ max_workers = MaxWorkers
    /\ BagCardinality(returned.detailed_metrics) = NumRows * NumModels
    /\ \E e1, e2 \in BagToSet(returned.detailed_metrics) :
          e1.error_occurred /\ ~e2.error_occurred

\* The prompt of a row: it depends on the row and the arguments of the run only.
PromptOf(r) ==
    create_context_specific_prompt(QueryOf(r), ContextOf(r), context_mode, AnswerTypeOf(r))

\* What the providers did for a pair determines its cells: after max_retries
\* exceptions the error text of the last one and the initial metric cells, else
\* FullResponse's content for the row's prompt and the metric cells of the attempt
\* that was answered.
ExpectedResponse(r, m) ==
    IF Len(caught[r][m]) = max_retries
    THEN ErrorMsg(caught[r][m][max_retries])
    ELSE ContentOf(m, PromptOf(r), FullResponse.content.words)

ExpectedMetrics(r, m) ==
    IF Len(caught[r][m]) = max_retries
    THEN ZeroMetrics
    ELSE MetricCells(create_enhanced_metrics_entry(
             r, RowOf(r), m, Len(caught[r][m]), FullResponse, ExpectedResponse(r, m),
             NoneValue))

\* C11: the table a run returns is determined by what the providers did for each
\* (row, model) pair, whatever the interleaving and the order in which the rows
\* complete: the cells of a pair hold the result of that pair, in the row of its
\* own index.
C11_TableIndependentOfOrder ==
    main_pc = "returned" =>
        \A r \in index : \A m \in ModelsOfRun :
            /\ returned.df.response[r][m] = ExpectedResponse(r, m)
            /\ returned.df.metrics[r][m] = ExpectedMetrics(r, m)

\* The second row has completed, with an answer written to its own row, before
\* the first row, taken from the queue before it, has written anything.
C11_Witness ==
    /\ Cardinality(index) > 1
    /\ \E r, q \in index : \E m \in ModelsOfRun :
          /\ r < q
          /\ pc[q] = "done"
          /\ df_response[q][m].kind = "content"
          /\ df_response[q][m].prompt.query = QueryOf(q)
          /\ Running(r)
          /\ \A m2 \in ModelsOfRun : df_response[r][m2] = EmptyText

\* C12: a task that ends with an exception leaves the run unharmed: the calling
\* thread does not raise, the lock is not left held by the task, the other tasks
\* can go on while some are unfinished, the run can return once all are, and in
\* the run that returned every other row is complete, with its results in the
\* table.
C12_WorkerExceptionContained ==
    (\E r \in index : pc[r] = "crashed") =>
        /\ main_pc \in {"pool", "returned"}
        /\ \A r \in index : pc[r] = "crashed" => lock # r
        /\ (main_pc = "pool" /\ ~AllDone) => ENABLED WorkerStep
        /\ (main_pc = "pool" /\ AllDone) => ENABLED Return
        /\ main_pc = "returned" =>
              \A q \in index : pc[q] # "crashed" =>
                  /\ pc[q] = "done"
                  /\ \A m \in ModelsOfRun :
                        /\ returned.df.response[q][m] = query_results[q][m]
                        /\ Recorded(query_results[q][m])

\* A run has returned in which the task of one row raised (the content of a
\* response was None) and the task of another row, started before it ended,
\* completed with an answer.
C12_Witness ==
    /\ main_pc = "returned"
    /\ max_workers > 1
    /\ \E r, q \in index : \E m \in ModelsOfRun :
          /\ r < q
          /\ pc[r] = "crashed"
          /\ pc[q] = "done"
          /\ returned.df.response[q][m].kind = "content"

\* The rows with a failed pair.
FailedRows == {r \in index : \E m \in ModelsOfRun : PairFailed(r, m)}

\* C13: completed counts the rows whose task went through "# Track progress",
\* with or without failed pairs: once all tasks have ended it is the number of
\* rows, and failed_queries holds each row with a failed pair once; a run with
\* failed pairs does not raise, it returns.
C13_FailedPairsCountAsCompleted ==
    /\ completed = Cardinality({r \in index : Finished(r)})
    /\ (main_pc \in {"pool", "returned"} /\ AllDone) =>
          /\ completed = Cardinality(index)
          /\ failed_queries = SetToBag(FailedRows)
    /\ FailedRows # {} => main_pc \in {"pool", "returned"}
    /\ (main_pc = "pool" /\ AllDone) => ENABLED Return

\* A run has returned with a row all of whose pairs failed and a row with a failed
\* and an answered pair, and completed is the number of rows.
C13_Witness ==
    /\ main_pc = "returned"
    /\ completed = NumRows
    /\ \E r, q \in index : \E m1, m2 \in ModelsOfRun :
          /\ \A m \in ModelsOfRun : PairFailed(r, m)
          /\ PairFailed(q, m1)
          /\ query_results[q][m2].kind = "content"

\* The call made on its own has returned.
Returned(fn) == calc.fn = fn /\ calc.done

\* The result columns of a table: those that belong to a model.
ResultColumnsOf(df) == df.columns \ {QuestionColumn}

\* C14: resubmitting failed indices through resume_failed_queries with the
\* configuration of the run (its models and its save_detailed_metrics) gives a
\* table whose result columns are exactly those of a fresh run_llm_reasoning
\* with that configuration: none missing, none added.
C14_ResumeSameColumns ==
    (/\ Returned("resume_failed_queries")
     /\ calc.args.failed_indices # << >>
     /\ calc.result.kind = "table")
        => ResultColumnsOf(calc.result)
               = ResultColumnsOf(RunTable(InputTable(calc.args.labels), calc.args.models,
                                          calc.args.save_detailed_metrics, "fresh"))

\* The prompts sent for a row, over its models and attempts.
PromptsOf(r) == UNION {Range(calls[r][m]) : m \in ModelNames}

AsksTrueOrFalse(prompt) ==
    Range(prompt.instruction)
        \cap {"Answer with TRUE or FALSE and explain your reasoning.",
              "Answer with TRUE or FALSE only."} # {}
\* The prompt asks for the reasoning or an explanation besides the answer.
AsksForReasoning(prompt) ==
    Range(prompt.instruction)
        \cap {"Show your reasoning process", "Show your reasoning process step by step",
              "Show your reasoning step by step",
              "Answer with TRUE or FALSE and explain your reasoning.",
              "Provide the correct answer(s) and explain your reasoning.",
              "Provide a clear answer and explain your reasoning."} # {}

\* The rows whose answer type is BIN.
BinaryRows == {r \in Rows : AnswerTypeOf(r) = "BIN"}

\* C16 as stated: for a BIN answer type every prompt carries an instruction that
\* forces a TRUE/FALSE-only answer with no explanation, whatever the context
\* mode.
C16_BinaryPromptTrueFalseOnly ==
    \A r \in BinaryRows : \A p \in PromptsOf(r) :
        AsksTrueOrFalse(p) /\ ~AsksForReasoning(p)

\* C16, amended: for a BIN answer type the prompt asks for TRUE or FALSE only in
\* the verbalized template (context mode other than "ttl", context not
\* mentioning "explanation_context" in mode "json"), and there together with an
\* explanation; in every context mode the prompt asks for the reasoning.
C16_BinaryPromptAsksForReasoning ==
    \A r \in BinaryRows : \A p \in PromptsOf(r) :
        /\ AsksForReasoning(p)
        /\ AsksTrueOrFalse(p)
               <=> ~(\/ context_mode = "ttl"
                     \/ context_mode = "json"
                            /\ MentionsExplanationContext(ontology_context[r]))

\* A BIN prompt was sent in mode "json" for a context read from a json file that
\* does not mention "explanation_context".
C16_Witness ==
    \E r \in BinaryRows :
        /\ PromptsOf(r) # {}
        /\ context_mode = "json"
        /\ ontology_context[r].kind = "filetext"

\* The probabilities of the scored tokens of a payload, in units of 1 / ProbUnit.
ScoredProbs(logprobs_data) ==
    IF logprobs_data = NoneValue THEN << >>
    ELSE LET scored == SelectSeq(logprobs_data.content, LAMBDA t : t.scored)
         IN  [i \in 1 .. Len(scored) |-> Prob(scored[i].logprob)]

RECURSIVE SumOfSquares(_)
\* The sum of the squares of the elements of seq.
SumOfSquares(seq) ==
    IF seq = << >> THEN 0 ELSE Head(seq) * Head(seq) + SumOfSquares(Tail(seq))

\* 1 + the (population) variance of probs is OnePlusVarNum / OnePlusVarDen.
OnePlusVarDen(probs) == Len(probs) * Len(probs) * ProbUnit * ProbUnit
OnePlusVarNum(probs) ==
    OnePlusVarDen(probs) + Len(probs) * SumOfSquares(probs) - Sum(probs) * Sum(probs)

\* The payload has token entries.
HasTokenEntries(logprobs_data) ==
    logprobs_data # NoneValue /\ logprobs_data.content # << >>

\* C17 as stated: consistency_score is 1.0 whenever the response has 0 or 1
\* scored tokens, a payload with no token entries included, and otherwise it
\* equals 1 / (1 + variance of the token probabilities).
C17_ConsistencyOneOrInverseVariance ==
    Returned("calculate_enhanced_confidence_score") =>
        LET probs == ScoredProbs(calc.args.logprobs_data)
        IN  IF Len(probs) <= 1
            THEN calc.result.consistency_score = Unit
            ELSE calc.result.consistency_score * OnePlusVarNum(probs)
                     = Unit * OnePlusVarDen(probs)

\* C17, amended: consistency_score is 0.0 for a payload that is missing or has
\* no token entries, 1.0 for a payload with token entries of which 0 or 1 are
\* scored, and otherwise 1 / (1 + variance of the token probabilities) rounded
\* to four decimals (the multiple of 0.0001 nearest to it).
C17_ConsistencyZeroOneOrRounded ==
    Returned("calculate_enhanced_confidence_score") =>
        LET probs == ScoredProbs(calc.args.logprobs_data)
            c == calc.result.consistency_score
            diff == c * OnePlusVarNum(probs) - Unit * OnePlusVarDen(probs)
        IN  IF ~HasTokenEntries(calc.args.logprobs_data) THEN c = 0
            ELSE IF Len(probs) <= 1 THEN c = Unit
            ELSE /\ 2 * diff <= OnePlusVarNum(probs)
                 /\ 2 * (0 - diff) <= OnePlusVarNum(probs)

\* The function returned for a payload with two or more scored tokens whose
\* probabilities differ: the score is below 1.0.
C17_Witness ==
    /\ Returned("calculate_enhanced_confidence_score")
    /\ Len(ScoredProbs(calc.args.logprobs_data)) > 1
    /\ Cardinality(Range(ScoredProbs(calc.args.logprobs_data))) > 1
    /\ calc.result.consistency_score < Unit

\* The provider calls of a pair that have returned a response.
ReturnedCalls(r, m) ==
    Len(calls[r][m]) - raised[r][m]
        - (IF pc[r] = "call" /\ CurrentModel(r) = m THEN 1 ELSE 0)

\* The metrics entries of a pair: the one the task has just created and those
\* appended to detailed_metrics.
EntriesOf(r, m) ==
    {e \in BagToSet(detailed_metrics) \cup {metrics_entry[r]} :
        e.kind = "entry" /\ e.query_index = r /\ e.model_display_name = m}

\* C18: when the responses the providers return (content and usage present)
\* carry no log-probabilities, no response causes an error: the only
\* exceptions caught are those the provider calls raised and no task crashes;
\* the entry of an answered pair has the four confidence fields 0 and
\* has_logprobs false; and the pair whose call returned is a success, its
\* result being the content.
C18_NoLogprobsNoError ==
    provider_responses = {ResponseWithoutLogprobs} =>
        \A r \in index : \A m \in ModelsOfRun :
            /\ pc[r] # "crashed"
            /\ Range(caught[r][m]) \subseteq provider_excs
            /\ Len(caught[r][m]) = raised[r][m]
            /\ \A e \in EntriesOf(r, m) :
                  ~e.error_occurred =>
                      e.confidence = [kind |-> "confidence", has_logprobs |-> FALSE,
                                      scores |-> [confidence_score |-> 0, entropy |-> 0,
                                                  top_token_prob |-> 0,
                                                  consistency_score |-> 0]]
            /\ ReturnedCalls(r, m) > 0 =>
                  /\ ReturnedCalls(r, m) = 1
                  /\ query_results[r][m].kind = "content"
                  /\ \E e \in EntriesOf(r, m) : ~e.error_occurred

\* A run whose responses have no log-probabilities has returned; a pair was
\* answered at its second attempt and its entry is in detailed_metrics.
C18_Witness ==
    /\ provider_responses = {ResponseWithoutLogprobs}
    /\ main_pc = "returned"
    /\ \E r \in index : \E m \in ModelsOfRun :
          /\ raised[r][m] = 1
          /\ df_response[r][m].kind = "content"
          /\ \E e \in BagToSet(returned.detailed_metrics) :
                /\ e.query_index = r /\ e.model_display_name = m
                /\ ~e.error_occurred
                /\ ~e.confidence.has_logprobs

\* The words in which a truth value is present, whatever the case of its letters.
Spellings(value) ==
    IF value = "true" THEN {"true", "True", "TRUE", "untrue"} ELSE {"false", "FALSE"}

\* The text states the truth value: the keyword is present in it.
States(text, value) ==
    /\ text # NoneValue
    /\ \E i \in DOMAIN text.words : text.words[i] \in Spellings(value)

\* The truth value an expected answer spells, "" when it spells none.
TruthValueOf(expected_answer) ==
    IF expected_answer = NoneValue \/ Len(expected_answer.words) # 1 THEN ""
    ELSE IF expected_answer.words[1] \in {"true", "True", "TRUE"} THEN "true"
    ELSE IF expected_answer.words[1] \in {"false", "FALSE"} THEN "false"
    ELSE ""

HasContent(r, m) ==
    query_results[r][m].kind = "content" /\ Truthy(query_results[r][m])

\* C20: success is terminal: once a provider call for a (row, model) pair has
\* returned content, no further provider call is made for the pair and its
\* recorded response stays that content, whatever happens while the metrics
\* entry is created afterwards.
C20_SuccessTerminal ==
    [][\A r \in Rows : \A m \in ModelNames :
           HasContent(r, m) =>
               /\ calls'[r][m] = calls[r][m]
               /\ query_results'[r][m] = query_results[r][m]]_vars

\* C21: every exception caught during an attempt is handled the same way whatever
\* its kind: while attempts remain the task sleeps one second, the same after
\* every attempt, and the pair is dispatched again with the next attempt number;
\* when none remain the pair is failed, without a sleep after the last attempt.
C21_UniformRetry ==
    \A r \in index : \A m \in ModelsOfRun :
        LET n == Len(caught[r][m])
        IN  /\ n <= max_retries
            /\ sleeps[r][m] = [i \in 1 .. (IF n < max_retries THEN n ELSE max_retries - 1) |-> 1]
            /\ PairFailed(r, m) <=> n = max_retries
            /\ (pc[r] \in {"try", "call", "sleep"} /\ CurrentModel(r) = m) =>
                   attempt[r] = (IF pc[r] = "sleep" THEN n - 1 ELSE n)
            /\ Len(calls[r][m]) <= n + 1

\* A pair caught two exceptions of different kinds, slept once between them and
\* failed.
C21_Witness ==
    \E r \in index : \E m \in ModelsOfRun :
        /\ Len(caught[r][m]) = max_retries
        /\ caught[r][m][1].type # caught[r][m][max_retries].type
        /\ sleeps[r][m] = [i \in 1 .. max_retries - 1 |-> 1]
        /\ PairFailed(r, m)
        /\ pc[r] = "done"

\* The provider calls of a pair that are in flight: sent, and neither returned
\* nor raised.
InFlight(r, m) == Len(calls[r][m]) - raised[r][m] - ReturnedCalls(r, m)

\* C22: within one row the models are called one after another in the order of
\* the configuration: a provider call for a model of the row is sent only when
\* every model before it has its result, content or error text, and no call of
\* it in flight; so at most one provider call of a row is in flight.
C22_ModelsOfRowInOrder ==
    \A r \in index :
        /\ \A j \in DOMAIN models : \A i \in 1 .. j - 1 :
              calls[r][models[j]] # << >> =>
                  /\ Recorded(query_results[r][models[i]])
                  /\ InFlight(r, models[i]) = 0
        /\ Cardinality({m \in ModelsOfRun : InFlight(r, m) > 0}) <= 1

\* The call for the second model of a row is in flight, the first model of the
\* row having failed, while a call of another row is in flight too.
C22_Witness ==
    \E r, q \in index :
        /\ r # q
        /\ Len(models) > 1
        /\ InFlight(r, models[2]) = 1
        /\ PairFailed(r, models[1])
        /\ \E m \in ModelsOfRun : InFlight(q, m) = 1

\* The entities the rows of the run name.
EntitiesOfRun == {RootEntityOf(r) : r \in index}

Exhausted(r) == \E m \in ModelsOfRun : Len(caught[r][m]) = max_retries

\* C24: after all workers have finished, failed_queries contains a row index
\* exactly when a pair of the row exhausted its attempts, and contains it once,
\* however many models of the row failed; it contains nothing else.
C24_FailedQueriesOncePerFailedRow ==
    AllDone =>
        /\ BagToSet(failed_queries) \subseteq index
        /\ \A r \in index :
              CopiesIn(r, failed_queries) = (IF Exhausted(r) THEN 1 ELSE 0)

\* All workers have finished: a row all of whose pairs exhausted their attempts
\* is in failed_queries once, a row without a failed pair is not in it.
C24_Witness ==
    /\ AllDone
    /\ Len(models) > 1
    /\ \E r, q \in index :
          /\ \A m \in ModelsOfRun : Len(caught[r][m]) = max_retries
          /\ CopiesIn(r, failed_queries) = 1
          /\ ~Exhausted(q)
          /\ CopiesIn(q, failed_queries) = 0

\* C25: the template of a prompt depends on the context mode and on whether the
\* row carries explanation guidance: in mode "json" a row with explanation
\* guidance gets the explanation-guidance template and a row without it the
\* verbalized-context template, and mode "ttl" gets the formal-query template.
C25_TemplateByModeAndGuidance ==
    \A r \in index : \A p \in PromptsOf(r) :
        /\ context_mode = "ttl" => p.template = "sparql_ttl"
        /\ context_mode = "json" =>
               p.template = (IF HasExplanation(r) THEN "explanation_guidance"
                             ELSE "verbalized")

\* ---------------------------------------------------------------- termination

\* The steps of the task of row r: what the pool thread that runs it does next.
TaskStep(r) ==
    \/ ProcessSingleQuery(r) \/ Dispatch(r) \/ ProviderReturns(r) \/ ProviderRaises(r)
    \/ Backoff(r) \/ AcquireLock(r) \/ RecordSuccess(r) \/ RecordFailure(r)
    \/ UpdateDataFrame(r) \/ TrackProgress(r)

\* The main thread and every pool thread keep being scheduled, and a provider
\* call that is in flight returns or raises.
Fairness ==
    /\ WF_vars(RunLlmReasoning)
    /\ WF_vars(Return)
    /\ \A r \in Rows : WF_vars(TaskStep(r))

\* The runs of SpecCrash under fair scheduling.
SpecLive == InitCrash /\ [][Next]_vars /\ Fairness

\* A pair is terminal: a provider call of it has returned (SUCCESS) or its
\* attempts are exhausted (FAILED).
PairTerminal(r, m) ==
    \/ ReturnedCalls(r, m) > 0
    \/ Len(caught[r][m]) = max_retries

\* C26: when every provider call returns or raises, the run terminates: every
\* (row, model) pair eventually is terminal, a task at a with-lock statement
\* eventually gets past it and the lock ends free, and the run returns only
\* after every task is done and every pair is terminal.
C26_RunTerminates ==
    /\ <>(main_pc = "returned")
    /\ \A r \in Rows : \A m \in ModelNames : <>PairTerminal(r, m)
    /\ \A r \in Rows : [](pc[r] \in LockSites => <>(pc[r] \notin LockSites))
    /\ <>[](lock = NoOne)
    /\ [](main_pc = "returned" =>
              /\ AllDone
              /\ \A r \in index : \A m \in ModelsOfRun : PairTerminal(r, m))

\* C26: the run has returned after a task raised inside the with block, while
\* another row has a pair that failed and a pair that succeeded.
C26_Witness ==
    /\ main_pc = "returned"
    /\ lock = NoOne
    /\ \E r, q \in index :
          /\ pc[r] = "crashed"
          /\ \E m, n \in ModelsOfRun :
                /\ Len(caught[q][m]) = max_retries
                /\ ReturnedCalls(q, n) > 0

\* ---------------------------------------------------------------- resume rows

\* The entries of failed_indices all name rows of the table of the call.
NamesRows(failed_indices, labels) ==
    \A i \in DOMAIN failed_indices : failed_indices[i] \in Range(labels)

\* C27: resume_failed_queries writes each re-run result to the row it selected
\* for resubmission: for a table with any row labels and failed_indices that
\* name rows of it, the call returns a table in which the result cells of row k
\* hold the re-run answer to the question of row k.
C27_ResumeWritesSelectedRow ==
    (/\ Returned("resume_failed_queries")
     /\ calc.args.failed_indices # << >>
     /\ NamesRows(calc.args.failed_indices, calc.args.labels))
        => /\ calc.result.kind = "table"
           /\ \A i \in DOMAIN calc.args.failed_indices :
                 LET k == calc.args.failed_indices[i]
                 IN  \A c \in ResultColumnsOf(calc.result) :
                         calc.result.cells[k][c] = Cell("resumed", k, c)

\* The pair of a cell succeeded in the first run: its response cell holds an
\* answer.
PairSucceeded(df, l, c) ==
    c[1] # NoOne /\ df.cells[l][<<c[1], response_column>>].kind = "cell"

\* C28: resume_failed_queries changes only the result cells of the rows listed in
\* failed_indices and, in such a row, only those of the pairs that had failed:
\* for a table with the default labels, no row is added, a row that is not
\* listed keeps every cell, and every cell of a pair that succeeded in the first
\* run is the cell of the first run (the pair was not run again).
C28_ResumeChangesFailedPairsOnly ==
    (/\ Returned("resume_failed_queries")
     /\ calc.args.failed_indices # << >>
     /\ calc.args.labels = [i \in DOMAIN calc.args.labels |-> i - 1]
     /\ NamesRows(calc.args.failed_indices, calc.args.labels))
        => LET df == TableOf(calc.args)
           IN  /\ calc.result.kind = "table"
               /\ calc.result.labels = df.labels
               /\ \A l \in Range(df.labels) : \A c \in df.columns :
                     (\/ l \notin Range(calc.args.failed_indices)
                      \/ c = QuestionColumn
                      \/ PairSucceeded(df, l, c))
                         => calc.result.cells[l][c] = df.cells[l][c]

\* ------------------------------------------------ make_api_call_with_retry

\* CONFIG['retry_delay'], in seconds.
retry_delay == 2
\* The largest max_retries passed to make_api_call_with_retry.
MaxRetryArg == 3

\* A response of client.chat.completions.create: its choices (the content of
\* each) and its version fields.
ChatResponse(choices, fingerprint) ==
    [kind |-> "response", choices |-> choices, model |-> "gpt-4o-mini",
     system_fingerprint |-> fingerprint]

\* The responses: without choices, or with one choice whose content is a text or
\* None.
ChatResponses ==
    {ChatResponse(ch, fp) : ch \in {<< >>, <<Text(<<"alice">>)>>, <<NoneValue>>},
                            fp \in {"fp_1", "None"}}

\* What client.chat.completions.create raises.
CreateExceptions == {APIConnectionError, RateLimitError}

\* response.choices[0] of a response without choices.
IndexError == Exc("IndexError", "list index out of range", 0, 0, FALSE)

\* get_model_version_info(response): the model and the fingerprint of the
\* response.
get_model_version_info(response) ==
    [kind |-> "version", model |-> response.model,
     fingerprint |-> response.system_fingerprint]

\* A pair returned by a function.
Pair(first, second) == [kind |-> "tuple", first |-> first, second |-> second]

\* f"[ERROR] {str(e)}"
RetryErrorText(e) == [kind |-> "error", label |-> "", message |-> e.message]

\* The body of the try: what it returns for a response, or the exception it
\* ends with.
TryBody(outcome) ==
    IF outcome \in CreateExceptions THEN [kind |-> "except", e |-> outcome]
    ELSE IF outcome.choices = << >> THEN [kind |-> "except", e |-> IndexError]
    ELSE Pair(outcome.choices[1], get_model_version_info(outcome))

\* make_api_call_with_retry(client, messages, gen_params, max_retries) at its
\* first attempt: the loop variable, the outcomes of the provider calls made and
\* the seconds slept.
RetryCall(n) ==
    [fn |-> "make_api_call_with_retry", args |-> [max_retries |-> n], done |-> FALSE,
     result |-> NoneValue, attempt |-> 0, pc |-> "try", outcomes |-> << >>,
     slept |-> << >>]

\* The call is at the try of an iteration of the loop.
AtTry ==
    /\ calc.fn = "make_api_call_with_retry"
    /\ ~calc.done
    /\ calc.pc = "try"
    /\ calc.attempt < calc.args.max_retries

\* The provider call returns and the body of the try returns the pair.
AttemptReturns ==
    /\ AtTry
    /\ \E o \in ChatResponses :
          /\ TryBody(o).kind = "tuple"
          /\ calc' = [calc EXCEPT !.outcomes = Append(@, o), !.done = TRUE,
                                  !.result = TryBody(o)]
    /\ UNCHANGED <<inputs, loads, shared, locals, observed, main_pc, returned>>

\* A variant of AttemptRaises that sleeps after every failed attempt.
AttemptRaisesAlwaysSleeping ==
    /\ AtTry
    /\ \E o \in CreateExceptions \cup ChatResponses :
          /\ TryBody(o).kind = "except"
          /\ calc' = [calc EXCEPT !.outcomes = Append(@, o), !.pc = "sleep"]
    /\ UNCHANGED <<inputs, loads, shared, locals, observed, main_pc, returned>>

\* The provider call or the rest of the try raises: except Exception; with
\* attempts remaining the function goes to sleep, else it returns the error pair.
AttemptRaises ==
    /\ AtTry
    /\ \E o \in CreateExceptions \cup ChatResponses :
          /\ TryBody(o).kind = "except"
          /\ calc' = IF calc.attempt < calc.args.max_retries - 1
                     THEN [calc EXCEPT !.outcomes = Append(@, o), !.pc = "sleep"]
                     ELSE [calc EXCEPT !.outcomes = Append(@, o), !.done = TRUE,
                               !.result = Pair(RetryErrorText(TryBody(o).e),
                                               "Error - Unable to retrieve")]
    /\ UNCHANGED <<inputs, loads, shared, locals, observed, main_pc, returned>>

\* time.sleep(CONFIG['retry_delay'] * (attempt + 1)), then the next iteration.
RetrySleep ==
    /\ calc.fn = "make_api_call_with_retry"
    /\ ~calc.done
    /\ calc.pc = "sleep"
    /\ calc' = [calc EXCEPT !.slept = Append(@, retry_delay * (calc.attempt + 1)),
                            !.attempt = @ + 1, !.pc = "try"]
    /\ UNCHANGED <<inputs, loads, shared, locals, observed, main_pc, returned>>

\* The loop ends without a return: the function returns None.
LoopEnds ==
    /\ calc.fn = "make_api_call_with_retry"
    /\ ~calc.done
    /\ calc.pc = "try"
    /\ calc.attempt >= calc.args.max_retries
    /\ calc' = [calc EXCEPT !.done = TRUE, !.result = NoneValue]
    /\ UNCHANGED <<inputs, loads, shared, locals, observed, main_pc, returned>>

NextRetry ==
    \/ AttemptReturns
    \/ AttemptRaises
    \/ RetrySleep
    \/ LoopEnds

\* No run; make_api_call_with_retry is called with max_retries of 0 .. MaxRetryArg.
InitRetry ==
    /\ has_question_column = TRUE
    /\ has_required_columns = TRUE
    /\ models = AllModels
    /\ max_workers = 1
    /\ context_mode = "ttl"
    /\ has_client = [m \in ModelNames |-> TRUE]
    /\ base_path_exists = TRUE
    /\ files = [r \in Rows |-> {"ttl"}]
    /\ provider_excs = {APIConnectionError}
    /\ provider_responses = {FullResponse}
    /\ show_qa = TRUE
    /\ root_entity = [r \in Rows |-> r]
    /\ explanation_context = [r \in Rows |-> EmptyText]
    /\ index = Rows
    /\ NoRun
    /\ calc \in {RetryCall(n) : n \in 0 .. MaxRetryArg}

SpecRetry == InitRetry /\ [][NextRetry]_vars

\* The attempts made so far that ended in an exception.
FailedAttempts == {i \in DOMAIN calc.outcomes : TryBody(calc.outcomes[i]).kind = "except"}

\* C29: make_api_call_with_retry with max_retries >= 1 makes at most max_retries
\* provider calls; the first attempt that succeeds is the last call, and its
\* content is the first component returned; the function never raises, and
\* after max_retries failed attempts it returns a pair whose first component is
\* an "[ERROR]" text; the k-th sleep, after failed attempt k with attempts
\* remaining, is of retry_delay x k seconds, and there is none after the last
\* attempt.
C29_RetryThenErrorPair ==
    (calc.fn = "make_api_call_with_retry" /\ calc.args.max_retries >= 1) =>
        LET n == Len(calc.outcomes)
        IN  /\ n <= calc.args.max_retries
            /\ \A i \in DOMAIN calc.outcomes \ FailedAttempts :
                  /\ i = n
                  /\ calc.done
                  /\ calc.result = Pair(calc.outcomes[i].choices[1],
                                        get_model_version_info(calc.outcomes[i]))
            /\ calc.result.kind \in {"None", "tuple"}
            /\ calc.done => calc.result.kind = "tuple"
            /\ (calc.done /\ FailedAttempts = DOMAIN calc.outcomes) =>
                  /\ n = calc.args.max_retries
                  /\ calc.result.first.kind = "error"
            /\ calc.slept = [k \in 1 .. Len(calc.slept) |-> retry_delay * k]
            /\ Len(calc.slept) =
                  Cardinality(FailedAttempts) - (IF calc.done \/ calc.pc = "sleep"
                                                    THEN (IF n \in FailedAttempts THEN 1 ELSE 0)
                                                    ELSE 0)
            /\ Len(calc.slept) <= calc.args.max_retries - 1

\* C29: a call with max_retries = MaxRetryArg has returned the error pair after
\* MaxRetryArg failed attempts and sleeps of retry_delay x 1, ... between them.
C29_Witness ==
    /\ calc.fn = "make_api_call_with_retry"
    /\ calc.done
    /\ calc.args.max_retries = MaxRetryArg
    /\ Len(calc.outcomes) = MaxRetryArg
    /\ calc.result.kind = "tuple"
    /\ calc.result.first.kind = "error"
    /\ calc.slept = [k \in 1 .. MaxRetryArg - 1 |-> retry_delay * k]

\* ------------------------------------------------------ add_triples_random

\* The number of resources a graph is built from.
NumNodes == 2
\* noise_percentage is a multiple of 1/PercentSteps.
PercentSteps == 4

\* The resources, each of which may be a subject or an object.
Nodes == 1 .. NumNodes
\* A triple (s, p, o).
Triple(s, p, o) == [kind |-> "triple", s |-> s, p |-> p, o |-> o]
\* The triples over the resources, with one predicate.
Triples == {Triple(s, "p", o) : s \in Nodes, o \in Nodes}

\* set(g.subjects()) and set(g.objects()).
Subjects(g) == {t.s : t \in g}
Objects(g) == {t.o : t \in g}

\* int(noise_percentage * len(g_no_noise)), noise_percentage = percent / PercentSteps.
MaxTriples(g, percent) == (percent * Cardinality(g)) \div PercentSteps

\* The corrupted triples an iteration can build: a triple of the graph with its
\* subject replaced by a subject of the graph, or its object by an object.
Candidates(g) ==
    {Triple(new_s, t.p, t.o) : new_s \in Subjects(g), t \in g}
        \cup {Triple(t.s, t.p, new_o) : new_o \in Objects(g), t \in g}

\* add_triples_random(g_no_noise, noise_percentage) before its loop.
NoiseCall(g, percent) ==
    [fn |-> "add_triples_random", args |-> [g_no_noise |-> g, noise_percentage |-> percent],
     done |-> FALSE, result |-> NoneValue, max_triples |-> MaxTriples(g, percent),
     num_triples |-> 0, noisy_g_random |-> {}, new_g_random |-> g,
     corrupted_triple |-> NoneValue]

\* The loop is at its test and goes on.
InLoop ==
    /\ calc.fn = "add_triples_random"
    /\ ~calc.done
    /\ calc.num_triples < calc.max_triples

\* An iteration whose corrupted triple is not in the graph: it is added to both
\* graphs (sets of triples) and counted.
DrawsNew ==
    /\ InLoop
    /\ \E c \in Candidates(calc.args.g_no_noise) \ calc.args.g_no_noise :
          calc' = [calc EXCEPT !.corrupted_triple = c,
                               !.noisy_g_random = @ \cup {c},
                               !.new_g_random = @ \cup {c},
                               !.num_triples = @ + 1]
    /\ UNCHANGED <<inputs, loads, shared, locals, observed, main_pc, returned>>

\* An iteration whose corrupted triple is in the graph: nothing is added.
DrawsKnown ==
    /\ InLoop
    /\ \E c \in Candidates(calc.args.g_no_noise) \cap calc.args.g_no_noise :
          calc' = [calc EXCEPT !.corrupted_triple = c]
    /\ UNCHANGED <<inputs, loads, shared, locals, observed, main_pc, returned>>

\* The loop ends: return noisy_g_random, new_g_random.
NoiseReturns ==
    /\ calc.fn = "add_triples_random"
    /\ ~calc.done
    /\ calc.num_triples >= calc.max_triples
    /\ calc' = [calc EXCEPT !.done = TRUE,
                            !.result = Pair(calc.noisy_g_random, calc.new_g_random)]
    /\ UNCHANGED <<inputs, loads, shared, locals, observed, main_pc, returned>>

NextNoise ==
    \/ DrawsNew
    \/ DrawsKnown
    \/ NoiseReturns

\* No run; add_triples_random is called on a graph over the resources with a
\* noise_percentage of 0, 1/PercentSteps, ... 1.
InitNoise ==
    /\ has_question_column = TRUE
    /\ has_required_columns = TRUE
    /\ models = AllModels
    /\ max_workers = 1
    /\ context_mode = "ttl"
    /\ has_client = [m \in ModelNames |-> TRUE]
    /\ base_path_exists = TRUE
    /\ files = [r \in Rows |-> {"ttl"}]
    /\ provider_excs = {APIConnectionError}
    /\ provider_responses = {FullResponse}
    /\ show_qa = TRUE
    /\ root_entity = [r \in Rows |-> r]
    /\ explanation_context = [r \in Rows |-> EmptyText]
    /\ index = Rows
    /\ NoRun
    /\ calc \in {NoiseCall(g, percent) : g \in SUBSET Triples, percent \in 0 .. PercentSteps}

\* The calls of add_triples_random; random.choice draws every element of its
\* list again and again, so an iteration that can draw a triple outside the
\* graph eventually does, and the function returns when its loop has ended.
SpecNoise == InitNoise /\ [][NextNoise]_vars /\ WF_vars(DrawsNew) /\ WF_vars(NoiseReturns)

\* C30: add_triples_random terminates for every graph and every
\* noise_percentage in [0, 1], and on return the noise graph holds
\* int(noise_percentage x |g|) triples, none of which is in the original graph.
C30_NoiseTerminatesWithCount ==
    /\ <>(calc.done)
    /\ [](calc.done =>
              /\ Cardinality(calc.result.first) = calc.max_triples
              /\ calc.result.first \cap calc.args.g_no_noise = {})

====
